---- MODULE Spec2Model ----
(***************************************************************************)
(* hh-tracker-worker: a Telegram webhook worker that accumulates pasted    *)
(* text per user, parses it into application records, stores them with a   *)
(* per-user unique fingerprint, and keeps an interview wizard state.       *)
(*                                                                         *)
(* Strings are modelled as sequences of UTF-16 code units, as the code's   *)
(* String methods and charCodeAt see them.                                 *)
(***************************************************************************)
EXTENDS Integers, Sequences, FiniteSets, TLC

\* ------------------------------------------------------------------------
\* String primitives (JavaScript String / RegExp semantics)
\* ------------------------------------------------------------------------

\* The characters String.prototype.trim removes and \s matches.
WhiteSpace ==
  {9, 10, 11, 12, 13, 32, 160, 5760, 8232, 8233, 8239, 8287, 12288, 65279}
    \cup (8192..8202)

\* \w of a RegExp without the u flag: ASCII letters, digits and underscore.
IsWordChar(c) ==
  c \in (48..57) \cup (65..90) \cup (97..122) \cup {95}

\* \d
IsDigit(c) ==
  c \in 48..57

\* [а-яё] under the i flag.
CyrLetters ==
  (1072..1103) \cup {1105} \cup (1040..1071) \cup {1025}

\* toLowerCase on one code unit: ASCII, and the Cyrillic block U+0400-U+042F.
ToLowerChar(c) ==
  IF c \in 65..90 THEN c + 32
  ELSE IF c \in 1040..1071 THEN c + 32
  ELSE IF c \in 1024..1039 THEN c + 80
  ELSE c

ToLowerCase(s) ==
  [i \in 1..Len(s) |-> ToLowerChar(s[i])]

RECURSIVE TrimStart(_)
TrimStart(s) ==
  IF s # <<>> /\ Head(s) \in WhiteSpace THEN TrimStart(Tail(s)) ELSE s

RECURSIVE TrimEnd(_)
TrimEnd(s) ==
  IF s # <<>> /\ s[Len(s)] \in WhiteSpace
  THEN TrimEnd(SubSeq(s, 1, Len(s) - 1))
  ELSE s

\* String.prototype.trim
Trim(s) ==
  TrimEnd(TrimStart(s))

\* String.prototype.includes
Includes(s, sub) ==
  \E i \in 0..(Len(s) - Len(sub)) : SubSeq(s, i + 1, i + Len(sub)) = sub

\* String.prototype.startsWith
StartsWith(s, pre) ==
  Len(s) >= Len(pre) /\ SubSeq(s, 1, Len(pre)) = pre

\* text.split(sep) for a one-character separator: "" gives [""].
RECURSIVE SplitOn(_, _)
SplitOn(s, sep) ==
  IF \E i \in 1..Len(s) : s[i] = sep
  THEN LET i == CHOOSE k \in 1..Len(s) :
                  s[k] = sep /\ \A j \in 1..(k - 1) : s[j] # sep
       IN  <<SubSeq(s, 1, i - 1)>> \o SplitOn(SubSeq(s, i + 1, Len(s)), sep)
  ELSE <<s>>

\* Array.prototype.join
RECURSIVE Join(_, _)
Join(parts, sep) ==
  IF parts = <<>> THEN <<>>
  ELSE IF Len(parts) = 1 THEN parts[1]
  ELSE parts[1] \o sep \o Join(Tail(parts), sep)

\* The last index e >= p - 1 such that every s[p..e] is in class.
RunEnd(s, p, class) ==
  IF p > Len(s) THEN p - 1
  ELSE IF \A q \in p..Len(s) : s[q] \in class THEN Len(s)
  ELSE (CHOOSE q \in p..Len(s) :
          s[q] \notin class /\ \A j \in p..(q - 1) : s[j] \in class) - 1

\* ------------------------------------------------------------------------
\* hash.ts
\* ------------------------------------------------------------------------

RECURSIVE BitXor(_, _)
BitXor(a, b) ==
  IF a = 0 THEN b
  ELSE IF b = 0 THEN a
  ELSE 2 * BitXor(a \div 2, b \div 2) + ((a + b) % 2)

\* A 64-bit value is four 16-bit limbs, least significant first.
\* 0xcbf29ce484222325
FnvOffsetBasis ==
  <<8997, 33826, 40164, 52210>>

\* hash ^= BigInt(code unit): the code unit is below 2^16.
FnvXor(h, c) ==
  <<BitXor(h[1], c), h[2], h[3], h[4]>>

\* (hash * 0x100000001b3) & 0xffffffffffffffff, with 0x100000001b3 = 2^40 + 435.
FnvMul(h) ==
  LET t0 == h[1] * 435
      t1 == h[2] * 435 + (t0 \div 65536)
      t2 == h[3] * 435 + (t1 \div 65536) + h[1] * 256
      t3 == h[4] * 435 + (t2 \div 65536) + h[2] * 256
  IN  <<t0 % 65536, t1 % 65536, t2 % 65536, t3 % 65536>>

\* The for-loop of fnv1a64Hex from index i on. (The hash is computed before
\* the recursive call so that evaluation never nests deeper than one step.)
RECURSIVE FnvLoop(_, _, _)
FnvLoop(h, str, i) ==
  IF i > Len(str) THEN h
  ELSE LET next == FnvMul(FnvXor(h, str[i]))
       IN  IF next[1] >= 0 THEN FnvLoop(next, str, i + 1) ELSE h

HexDigit(n) ==
  IF n < 10 THEN 48 + n ELSE 87 + n

Hex4(limb) ==
  << HexDigit(limb \div 4096), HexDigit((limb \div 256) % 16),
     HexDigit((limb \div 16) % 16), HexDigit(limb % 16) >>

RECURSIVE StripLeadingZeros(_)
StripLeadingZeros(s) ==
  IF Len(s) > 1 /\ Head(s) = 48 THEN StripLeadingZeros(Tail(s)) ELSE s

\* BigInt.prototype.toString(16)
ToString16(h) ==
  StripLeadingZeros(Hex4(h[4]) \o Hex4(h[3]) \o Hex4(h[2]) \o Hex4(h[1]))

\* A padStart that adds nothing.
PadStartNone(s, n) ==
  s

\* String.prototype.padStart(n, "0")
RECURSIVE PadStart0(_, _)
PadStart0(s, n) ==
  IF Len(s) >= n THEN s ELSE PadStart0(<<48>> \o s, n)

fnv1a64Hex(input) ==
  PadStart0(ToString16(FnvLoop(FnvOffsetBasis, input, 1)), 16)

\* parser.ts: the six status labels that close a block.
VALID_STATUSES ==
  {
    \* "Отказ"
    <<1054, 1090, 1082, 1072, 1079>>,
    \* "Просмотрен"
    <<1055, 1088, 1086, 1089, 1084, 1086, 1090, 1088, 1077, 1085>>,
    \* "Не просмотрен"
    <<1053, 1077, 32, 1087, 1088, 1086, 1089, 1084, 1086, 1090, 1088, 1077, 1085>>,
    \* "Собеседование"
    <<1057, 1086, 1073, 1077, 1089, 1077, 1076, 1086, 1074, 1072, 1085, 1080, 1077>>,
    \* "Приглашение"
    <<1055, 1088, 1080, 1075, 1083, 1072, 1096, 1077, 1085, 1080, 1077>>,
    \* "Тестовое"
    <<1058, 1077, 1089, 1090, 1086, 1074, 1086, 1077>>
  }

\* parser.ts: boilerplate substrings; a line containing one is dropped.
IGNORE_SUBSTRINGS ==
  {
    \* "Employer Logo"
    <<69, 109, 112, 108, 111, 121, 101, 114, 32, 76, 111, 103, 111>>,
    \* "Был онлайн"
    <<1041, 1099, 1083, 32, 1086, 1085, 1083, 1072, 1081, 1085>>,
    \* "Разбирает"
    <<1056, 1072, 1079, 1073, 1080, 1088, 1072, 1077, 1090>>,
    \* "Получите работу быстрее"
    <<1055, 1086, 1083, 1091, 1095, 1080, 1090, 1077, 32, 1088, 1072, 1073, 1086, 1090, 1091, 32, 1073, 1099, 1089, 1090, 1088, 1077, 1077>>,
    \* "подпиской hh PRO"
    <<1087, 1086, 1076, 1087, 1080, 1089, 1082, 1086, 1081, 32, 104, 104, 32, 80, 82, 79>>,
    \* "доступ к статистике"
    <<1076, 1086, 1089, 1090, 1091, 1087, 32, 1082, 32, 1089, 1090, 1072, 1090, 1080, 1089, 1090, 1080, 1082, 1077>>
  }

\* parser.ts: genitive month names.
MONTHS ==
  {
    \* "января"
    <<1103, 1085, 1074, 1072, 1088, 1103>>,
    \* "февраля"
    <<1092, 1077, 1074, 1088, 1072, 1083, 1103>>,
    \* "марта"
    <<1084, 1072, 1088, 1090, 1072>>,
    \* "апреля"
    <<1072, 1087, 1088, 1077, 1083, 1103>>,
    \* "мая"
    <<1084, 1072, 1103>>,
    \* "июня"
    <<1080, 1102, 1085, 1103>>,
    \* "июля"
    <<1080, 1102, 1083, 1103>>,
    \* "августа"
    <<1072, 1074, 1075, 1091, 1089, 1090, 1072>>,
    \* "сентября"
    <<1089, 1077, 1085, 1090, 1103, 1073, 1088, 1103>>,
    \* "октября"
    <<1086, 1082, 1090, 1103, 1073, 1088, 1103>>,
    \* "ноября"
    <<1085, 1086, 1103, 1073, 1088, 1103>>,
    \* "декабря"
    <<1076, 1077, 1082, 1072, 1073, 1088, 1103>>
  }

\* "сегодня"
TODAY ==
  <<1089, 1077, 1075, 1086, 1076, 1085, 1103>>

\* "вчера"
YESTERDAY ==
  <<1074, 1095, 1077, 1088, 1072>>

\* "Unknown"
UNKNOWN ==
  <<85, 110, 107, 110, 111, 119, 110>>

\* detectRoleFamily: hasProduct = /(product|продакт|продукт)/ or includes("менеджер по продукт").
ProductWords ==
  {
    \* "product"
    <<112, 114, 111, 100, 117, 99, 116>>,
    \* "продакт"
    <<1087, 1088, 1086, 1076, 1072, 1082, 1090>>,
    \* "продукт"
    <<1087, 1088, 1086, 1076, 1091, 1082, 1090>>,
    \* "менеджер по продукт"
    <<1084, 1077, 1085, 1077, 1076, 1078, 1077, 1088, 32, 1087, 1086, 32, 1087, 1088, 1086, 1076, 1091, 1082, 1090>>
  }

\* detectRoleFamily: hasProject.
ProjectWords ==
  {
    \* "project"
    <<112, 114, 111, 106, 101, 99, 116>>,
    \* "проджект"
    <<1087, 1088, 1086, 1076, 1078, 1077, 1082, 1090>>,
    \* "проект"
    <<1087, 1088, 1086, 1077, 1082, 1090>>
  }

\* detectRoleFamily: hasAnalyst.
AnalystWords ==
  {
    \* "analyst"
    <<97, 110, 97, 108, 121, 115, 116>>,
    \* "аналит"
    <<1072, 1085, 1072, 1083, 1080, 1090>>,
    \* "analytics"
    <<97, 110, 97, 108, 121, 116, 105, 99, 115>>,
    \* "аналитик"
    <<1072, 1085, 1072, 1083, 1080, 1090, 1080, 1082>>
  }

\* detectRoleFamily: hasMarketing.
MarketingWords ==
  {
    \* "marketing"
    <<109, 97, 114, 107, 101, 116, 105, 110, 103>>,
    \* "маркетинг"
    <<1084, 1072, 1088, 1082, 1077, 1090, 1080, 1085, 1075>>,
    \* "growth"
    <<103, 114, 111, 119, 116, 104>>,
    \* "гроус"
    <<1075, 1088, 1086, 1091, 1089>>,
    \* "performance"
    <<112, 101, 114, 102, 111, 114, 109, 97, 110, 99, 101>>
  }

\* detectRoleFamily: the includes() alternatives of the product-marketing rule.
ProductMarketingWords ==
  {
    \* "product marketing"
    <<112, 114, 111, 100, 117, 99, 116, 32, 109, 97, 114, 107, 101, 116, 105, 110, 103>>,
    \* "продакт маркет"
    <<1087, 1088, 1086, 1076, 1072, 1082, 1090, 32, 1084, 1072, 1088, 1082, 1077, 1090>>
  }

\* detectRoleFamily: the includes() alternatives of the product-analytics rule.
ProductAnalystWords ==
  {
    \* "product analyst"
    <<112, 114, 111, 100, 117, 99, 116, 32, 97, 110, 97, 108, 121, 115, 116>>,
    \* "продакт аналит"
    <<1087, 1088, 1086, 1076, 1072, 1082, 1090, 32, 1072, 1085, 1072, 1083, 1080, 1090>>
  }

\* detectGrade: junior markers.
JuniorWords ==
  {
    \* "junior"
    <<106, 117, 110, 105, 111, 114>>,
    \* "джун"
    <<1076, 1078, 1091, 1085>>,
    \* "младш"
    <<1084, 1083, 1072, 1076, 1096>>,
    \* "intern"
    <<105, 110, 116, 101, 114, 110>>,
    \* "стаж"
    <<1089, 1090, 1072, 1078>>
  }

\* detectGrade: senior markers.
SeniorWords ==
  {
    \* "senior"
    <<115, 101, 110, 105, 111, 114>>,
    \* "старш"
    <<1089, 1090, 1072, 1088, 1096>>,
    \* "lead"
    <<108, 101, 97, 100>>,
    \* "head"
    <<104, 101, 97, 100>>,
    \* "руковод"
    <<1088, 1091, 1082, 1086, 1074, 1086, 1076>>
  }

\* ------------------------------------------------------------------------
\* index.ts: pure helpers of the webhook handler
\* ------------------------------------------------------------------------

\* text.match(/\d+/g): the maximal digit runs of text, in order.
RECURSIVE DigitRuns(_, _)
DigitRuns(text, i) ==
  IF i > Len(text) THEN <<>>
  ELSE IF IsDigit(text[i])
       THEN LET e == RunEnd(text, i, 48..57)
            IN  <<SubSeq(text, i, e)>> \o DigitRuns(text, e + 1)
       ELSE DigitRuns(text, i + 1)

\* Number(run) for a digit run. Every value above 9999 is represented by
\* 10000: isValidCount, the only reader, does not tell them apart.
RECURSIVE DigitsValue(_, _)
DigitsValue(run, acc) ==
  IF run = <<>> THEN acc
  ELSE IF acc * 10 + (Head(run) - 48) > 9999 THEN 10000
  ELSE DigitsValue(Tail(run), acc * 10 + (Head(run) - 48))

\* (text.match(/\d+/g) ?? []).map(Number).filter(Number.isFinite): Number of
\* a digit run is Infinity from 2^1024 - 2^970 on (309 significant digits,
\* written out in overflow), and filter drops it.
parseCountsFromText(text) ==
  LET runs == DigitRuns(text, 1)
      overflow ==
      << 49, 55, 57, 55, 54, 57, 51, 49, 51, 52, 56, 54, 50, 51, 49, 53, 56, 48, 55, 57,
         51, 55, 50, 56, 57, 55, 49, 52, 48, 53, 51, 48, 51, 52, 49, 53, 48, 55, 57, 57,
         51, 52, 49, 51, 50, 55, 49, 48, 48, 51, 55, 56, 50, 54, 57, 51, 54, 49, 55, 51,
         55, 55, 56, 57, 56, 48, 52, 52, 52, 57, 54, 56, 50, 57, 50, 55, 54, 52, 55, 53,
         48, 57, 52, 54, 54, 52, 57, 48, 49, 55, 57, 55, 55, 53, 56, 55, 50, 48, 55, 48,
         57, 54, 51, 51, 48, 50, 56, 54, 52, 49, 54, 54, 57, 50, 56, 56, 55, 57, 49, 48,
         57, 52, 54, 53, 53, 53, 53, 52, 55, 56, 53, 49, 57, 52, 48, 52, 48, 50, 54, 51,
         48, 54, 53, 55, 52, 56, 56, 54, 55, 49, 53, 48, 53, 56, 50, 48, 54, 56, 49, 57,
         48, 56, 57, 48, 50, 48, 48, 48, 55, 48, 56, 51, 56, 51, 54, 55, 54, 50, 55, 51,
         56, 53, 52, 56, 52, 53, 56, 49, 55, 55, 49, 49, 53, 51, 49, 55, 54, 52, 52, 55,
         53, 55, 51, 48, 50, 55, 48, 48, 54, 57, 56, 53, 53, 53, 55, 49, 51, 54, 54, 57,
         53, 57, 54, 50, 50, 56, 52, 50, 57, 49, 52, 56, 49, 57, 56, 54, 48, 56, 51, 52,
         57, 51, 54, 52, 55, 53, 50, 57, 50, 55, 49, 57, 48, 55, 52, 49, 54, 56, 52, 52,
         52, 51, 54, 53, 53, 49, 48, 55, 48, 52, 51, 52, 50, 55, 49, 49, 53, 53, 57, 54,
         57, 57, 53, 48, 56, 48, 57, 51, 48, 52, 50, 56, 56, 48, 49, 55, 55, 57, 48, 52,
         49, 55, 52, 52, 57, 55, 55, 57, 50 >>
      sig(run) ==
        IF \A k \in 1..Len(run) : run[k] = 48 THEN <<>>
        ELSE SubSeq(run, CHOOSE k \in 1..Len(run) :
                           run[k] # 48 /\ \A j \in 1..(k - 1) : run[j] = 48,
                    Len(run))
      atLeast(a, b) ==
        \/ a = b
        \/ \E k \in 1..Len(a) : a[k] > b[k] /\ \A j \in 1..(k - 1) : a[j] = b[j]
      isFinite(run) ==
        \/ Len(sig(run)) < Len(overflow)
        \/ Len(sig(run)) = Len(overflow) /\ ~atLeast(sig(run), overflow)
      finite == SelectSeq(runs, isFinite)
  IN  [i \in 1..Len(finite) |-> DigitsValue(finite[i], 0)]

\* A range check without the upper limit.
isValidCountUnbounded(n) ==
  n >= 0

isValidCount(n) ==
  n >= 0 /\ n <= 9999

\* ------------------------------------------------------------------------
\* Timestamps: SQLite datetime() and Date.prototype.toISOString()
\* ------------------------------------------------------------------------
\* A time is a number of hours since 2024-01-01T00:00:00Z; every time of the
\* model lies in the year 2024 and on a full hour.

\* SQLite datetime(): "YYYY-MM-DD HH:MM:SS"
sqliteDatetime(t) ==
  LET \* the day of the year on which each month of 2024 starts
      first   == <<0, 31, 60, 91, 121, 152, 182, 213, 244, 274, 305, 335, 366>>
      d       == t \div 24
      month   == CHOOSE m \in 1..12 : first[m] <= d /\ d < first[m + 1]
      day     == d - first[month] + 1
      Pad2(n) == <<48 + (n \div 10), 48 + (n % 10)>>
  IN  <<50, 48, 50, 52, 45>> \o Pad2(month) \o <<45>> \o Pad2(day)
        \o <<32>> \o Pad2(t % 24) \o <<58, 48, 48, 58, 48, 48>>

\* new Date(ms).toISOString(): "YYYY-MM-DDTHH:MM:SS.sssZ", the same date
\* and time of day (both are UTC) with "T" and milliseconds.
toISOString(t) ==
  LET s == sqliteDatetime(t)
  IN  SubSeq(s, 1, 10) \o <<84>> \o SubSeq(s, 12, 19) \o <<46, 48, 48, 48, 90>>

\* a >= b for two TEXT values under SQLite's BINARY collation: the first
\* differing character decides, and a proper prefix is smaller.
RECURSIVE TextGE(_, _)
TextGE(a, b) ==
  IF b = <<>> THEN TRUE
  ELSE IF a = <<>> THEN FALSE
  ELSE IF Head(a) # Head(b) THEN Head(a) > Head(b)
  ELSE TextGE(Tail(a), Tail(b))

\* ------------------------------------------------------------------------
\* parser.ts
\* ------------------------------------------------------------------------

NoMatch ==
  [matched |-> FALSE]

\* line.match(/\b(\d{1,2})\s+([а-яё]+)\b/i) attempted at start index i.
\* \b before the digits: the preceding character is not a word character.
\* \d{1,2} is greedy and \s must follow, so the digit run is one or two long.
\* [а-яё]+ is greedy; the closing \b needs a word character on exactly one
\* side, and a Cyrillic letter is not a word character, so the character
\* after the letters must exist and be an ASCII word character.
DateRegexAt(line, i) ==
  LET n     == Len(line)
      d     == IF i + 1 <= n /\ IsDigit(line[i + 1]) THEN 2 ELSE 1
      wsEnd == RunEnd(line, i + d, WhiteSpace)
      ltEnd == RunEnd(line, wsEnd + 1, CyrLetters)
  IN  IF /\ IsDigit(line[i])
         /\ (i = 1 \/ ~IsWordChar(line[i - 1]))
         /\ wsEnd >= i + d
         /\ ltEnd >= wsEnd + 1
         /\ ltEnd < n
         /\ IsWordChar(line[ltEnd + 1])
      THEN [matched |-> TRUE,
            day     |-> SubSeq(line, i, i + d - 1),
            word    |-> SubSeq(line, wsEnd + 1, ltEnd)]
      ELSE NoMatch

\* The first (leftmost) match of the date RegExp in line.
DateRegex(line) ==
  LET starts == {i \in 1..Len(line) : DateRegexAt(line, i).matched}
  IN  IF starts = {} THEN NoMatch
      ELSE DateRegexAt(line, CHOOSE i \in starts : \A j \in starts : i <= j)

\* A filter that treats no line as noise.
isIgnorableNever(line) ==
  FALSE

isIgnorable(line) ==
  \E s \in IGNORE_SUBSTRINGS : Includes(line, s)

\* A date lookup that returns the lower-cased line for a date word.
DateOfLineLower(l) ==
  LET line == ToLowerCase(l)
      m    == DateRegex(line)
  IN  IF line = TODAY \/ line = YESTERDAY THEN [matched |-> TRUE, date |-> line]
      ELSE IF m.matched /\ m.word \in MONTHS
           THEN [matched |-> TRUE, date |-> m.day \o <<32>> \o m.word]
           ELSE NoMatch

\* The result of one iteration of extractDate's loop on line l: its date,
\* or NoMatch when the loop goes on.
DateOfLine(l) ==
  LET line == ToLowerCase(l)
      m    == DateRegex(line)
  IN  IF line = TODAY \/ line = YESTERDAY THEN [matched |-> TRUE, date |-> l]
      ELSE IF m.matched /\ m.word \in MONTHS
           THEN [matched |-> TRUE, date |-> m.day \o <<32>> \o m.word]
           ELSE NoMatch

RECURSIVE extractDate(_)
extractDate(blockLines) ==
  IF blockLines = <<>> THEN NoMatch
  ELSE IF DateOfLine(Head(blockLines)).matched THEN DateOfLine(Head(blockLines))
  ELSE extractDate(Tail(blockLines))

\* The predicate of flush's candidates filter.
IsCandidate(l) ==
  LET low == ToLowerCase(l)
      m   == DateRegex(low)
  IN  ~ (low = TODAY \/ low = YESTERDAY) /\ ~ (m.matched /\ m.word \in MONTHS)

HasAny(t, words) ==
  \E w \in words : Includes(t, w)

\* A classifier that checks the project rule first.
detectRoleFamilyProjectFirst(title) ==
  LET t            == ToLowerCase(title)
      hasProduct   == HasAny(t, ProductWords)
      hasProject   == HasAny(t, ProjectWords)
      hasAnalyst   == HasAny(t, AnalystWords)
      hasMarketing == HasAny(t, MarketingWords)
  IN  IF hasProject THEN "project"
      ELSE IF hasMarketing /\ hasProduct THEN "product_marketing"
      ELSE IF hasAnalyst THEN "product_analytics"
      ELSE IF hasProduct THEN "product"
      ELSE "other"

detectRoleFamily(title) ==
  LET t            == ToLowerCase(title)
      hasProduct   == HasAny(t, ProductWords)
      hasProject   == HasAny(t, ProjectWords)
      hasAnalyst   == HasAny(t, AnalystWords)
      hasMarketing == HasAny(t, MarketingWords)
  IN  IF hasMarketing /\ (hasProduct \/ HasAny(t, ProductMarketingWords))
        THEN "product_marketing"
      ELSE IF hasAnalyst /\ (hasProduct \/ HasAny(t, ProductAnalystWords))
        THEN "product_analytics"
      ELSE IF hasProject THEN "project"
      ELSE IF hasProduct THEN "product"
      ELSE IF hasAnalyst THEN "product_analytics"
      ELSE "other"

\* A grade classifier without the default.
detectGradeNoDefault(title) ==
  LET t == ToLowerCase(title)
  IN  IF HasAny(t, JuniorWords) THEN "junior"
      ELSE IF HasAny(t, SeniorWords) THEN "senior"
      ELSE "unknown"

\* A classifier that checks the senior markers first.
detectGradeSeniorFirst(title) ==
  LET t == ToLowerCase(title)
  IN  IF HasAny(t, SeniorWords) THEN "senior"
      ELSE IF HasAny(t, JuniorWords) THEN "junior"
      ELSE "middle"

detectGrade(title) ==
  LET t == ToLowerCase(title)
  IN  IF HasAny(t, JuniorWords) THEN "junior"
      ELSE IF HasAny(t, SeniorWords) THEN "senior"
      ELSE "middle"

\* " | "
RawSep ==
  <<32, 124, 32>>

\* flush(status) of parseHHBuffer, as a function of the current block.
flush(block, status) ==
  LET payload    == SelectSeq(block, LAMBDA l : l \notin VALID_STATUSES)
      found      == extractDate(payload)
      dateStr    == IF found.matched THEN found.date ELSE UNKNOWN
      candidates == SelectSeq(payload, IsCandidate)
      titleStr   == IF Len(candidates) >= 1 THEN candidates[1] ELSE UNKNOWN
      companyStr == IF Len(candidates) >= 2 THEN candidates[2] ELSE UNKNOWN
      fields     == <<titleStr, companyStr, dateStr, status>>
  IN  [ title        |-> titleStr,
        company      |-> companyStr,
        status       |-> status,
        responseDate |-> dateStr,
        roleFamily   |-> detectRoleFamily(titleStr),
        grade        |-> detectGrade(titleStr),
        hash         |-> fnv1a64Hex(Join(fields, <<124>>)),
        raw          |-> Join(fields, RawSep) ]

\* text.split("\n").map(trim).filter(Boolean).filter(not ignorable)
CleanLines(text) ==
  LET trimmed == [i \in 1..Len(SplitOn(text, 10)) |-> Trim(SplitOn(text, 10)[i])]
  IN  SelectSeq(SelectSeq(trimmed, LAMBDA l : l # <<>>),
                LAMBDA l : ~isIgnorable(l))

\* A loop that calls flush at every status line, also on an empty block.
RECURSIVE BlockLoopAlways(_, _, _, _)
BlockLoopAlways(lines, i, calls, block) ==
  IF i > Len(lines) THEN calls
  ELSE IF lines[i] \in VALID_STATUSES
       THEN BlockLoopAlways(lines, i + 1,
                            Append(calls, [block |-> block, status |-> lines[i]]),
                            <<>>)
       ELSE BlockLoopAlways(lines, i + 1, calls, Append(block, lines[i]))

\* The for-loop of parseHHBuffer from line i on: the calls of flush made
\* so far (calls), each with the block it reads and its status argument,
\* and the current block.
RECURSIVE BlockLoop(_, _, _, _)
BlockLoop(lines, i, calls, block) ==
  IF i > Len(lines) THEN calls
  ELSE IF lines[i] \in VALID_STATUSES
       THEN BlockLoop(lines, i + 1,
                      IF Len(block) > 0
                      THEN Append(calls, [block |-> block, status |-> lines[i]])
                      ELSE calls,
                      <<>>)
       ELSE BlockLoop(lines, i + 1, calls, Append(block, lines[i]))

\* The calls of flush that parseHHBuffer(text) makes, in order.
FlushCalls(text) ==
  BlockLoop(CleanLines(text), 1, <<>>, <<>>)

\* The array `out` of parseHHBuffer before deduplication: one record pushed
\* by each call of flush.
FlushedRecords(text) ==
  LET calls == FlushCalls(text)
  IN  [k \in 1..Len(calls) |-> flush(calls[k].block, calls[k].status)]

\* A loop that keeps every record.
DedupKeepAll(out, seen, deduped) ==
  out

\* The dedup loop: keep the first record of each hash.
RECURSIVE Dedup(_, _, _)
Dedup(out, seen, deduped) ==
  IF out = <<>> THEN deduped
  ELSE IF Head(out).hash \in seen
       THEN Dedup(Tail(out), seen, deduped)
       ELSE Dedup(Tail(out), seen \cup {Head(out).hash}, Append(deduped, Head(out)))

parseHHBuffer(text) ==
  Dedup(FlushedRecords(text), {}, <<>>)

\* ------------------------------------------------------------------------
\* Bounds and inputs of the webhook model
\* ------------------------------------------------------------------------

\* Number of distinct update_ids Telegram sends.
MaxUpdates ==
  2

\* Number of times Telegram sends an update_id again.
MaxRedeliveries ==
  1

Users ==
  {1, 2}

UpdateIds ==
  1..MaxUpdates

\* "A\nB\nОтказ": one complete block.
TextBlock ==
  <<65, 10, 66, 10, 1054, 1090, 1082, 1072, 1079>>

\* "C": a line still waiting for its status line.
TextLine ==
  <<67>>

\* "5": one count, the answer to one wizard question.
TextCount ==
  <<53>>

\* "1 2 0 0": four counts, the quick form of an interview entry.
TextQuick ==
  <<49, 32, 50, 32, 48, 32, 48>>

\* "/new", "/reset", "/done", "/interviews", "/sobes", "/cancel", "/stats"
CmdNew        == <<47, 110, 101, 119>>
CmdReset      == <<47, 114, 101, 115, 101, 116>>
CmdDone       == <<47, 100, 111, 110, 101>>
CmdInterviews == <<47, 105, 110, 116, 101, 114, 118, 105, 101, 119, 115>>
CmdSobes      == <<47, 115, 111, 98, 101, 115>>
CmdCancel     == <<47, 99, 97, 110, 99, 101, 108>>
CmdStats      == <<47, 115, 116, 97, 116, 115>>
CmdReport     == <<47, 114, 101, 112, 111, 114, 116>>
CmdExport     == <<47, 101, 120, 112, 111, 114, 116>>
CmdCsv        == <<47, 99, 115, 118>>

\* The message texts and callback data Telegram delivers in this model.
MessageTexts ==
  {TextBlock, TextLine, TextCount, TextQuick, CmdNew, CmdDone, CmdInterviews, CmdStats}

CallbackData ==
  {"new", "done"}

Updates ==
  [user : Users, kind : {"message"}, text : MessageTexts, data : {""}]
    \cup [user : Users, kind : {"callback"}, text : {<<>>}, data : CallbackData]

NoUpdate ==
  [user |-> 0, kind |-> "none", text |-> <<>>, data |-> ""]


\* ------------------------------------------------------------------------
\* Bounds and inputs of the parser model
\* ------------------------------------------------------------------------

\* Number of plain-text messages in the acknowledgement model.
MaxAckTasks ==
  2

\* Number of lines a parser input is built from.
MaxParseLines ==
  4

\* "Foo", "Bar": ordinary lines. "Просмотрен", "Отказ": status labels.
\* "  Отказ ": a label with blanks around it. "отказ", "Отказ!": not labels.
\* "Разбирает отклики": a noise line. "": a blank line.
ParseLines ==
  { <<70, 111, 111>>,
    <<66, 97, 114>>,
    <<1055, 1088, 1086, 1089, 1084, 1086, 1090, 1088, 1077, 1085>>,
    <<1054, 1090, 1082, 1072, 1079>>,
    <<32, 32, 1054, 1090, 1082, 1072, 1079, 32>>,
    <<1086, 1090, 1082, 1072, 1079>>,
    <<1054, 1090, 1082, 1072, 1079, 33>>,
    <<1056, 1072, 1079, 1073, 1080, 1088, 1072, 1077, 1090, 32, 1086, 1090, 1082, 1083, 1080, 1082, 1080>>,
    <<>> }

\* "Foo\nBar\nПросмотрен\nBaz\nQux\nОтказ"
ParseExample ==
  <<70, 111, 111, 10, 66, 97, 114, 10, 1055, 1088, 1086, 1089, 1084, 1086, 1090, 1088, 1077, 1085, 10, 66, 97, 122, 10, 81, 117, 120, 10, 1054, 1090, 1082, 1072, 1079>>
\* ------------------------------------------------------------------------
\* State: the D1 tables and the processUpdate tasks in flight
\* ------------------------------------------------------------------------
\* Each awaited storage statement of processUpdate is one step, so that the
\* tasks of different requests interleave as the Worker runtime lets them.
\* Left out: the Telegram API calls and the company enrichment. ensureUser
\* is kept as a statement that can fail. The aggregators and the "Принял"
\* acknowledgement have their own tasks (agg, ackTask) and their own
\* specifications, in which the clocks move.
\* Init lets a user start with a buffer that earlier appendToBuffer calls
\* have filled.
VARIABLES
  processed,         \* table processed_updates: the set of update_id rows
  buffers,           \* table buffers: user_id -> buffer_text, or NoRow
  responses,         \* table responses: the rows in insertion (id) order
  user_state,        \* table user_state: user_id -> [state, data], or NoRow
  interview_entries, \* table interview_entries: the rows in insertion order
  update,            \* update_id -> the update Telegram sends under that id
  task,              \* update_id -> the processUpdate task started for it
  deliveries,        \* update_id -> number of POST /telegram requests with it
  markedNew,         \* update_id -> number of markUpdateProcessed calls returning true
  started,           \* update_id -> number of processUpdate calls
  appended,          \* update_id -> number of buffer writes that stored its text
  afterReset,        \* update_id -> it arrived after a reset of its user had returned
  rejected,          \* update_id -> number of POST /telegram requests answered 403
  input,             \* the text given to parseHHBuffer (parser model)
  clock,             \* the time, in hours since 2024-01-01T00:00:00Z
  agg,               \* the getUserStats / getUserStatsV2 call in flight
  nowMs,             \* Date.now() of the acknowledgement model
  last_ack_at,       \* table users: user_id -> last_ack_at
  ackTask,           \* message -> the processUpdate task of a plain text
  acks               \* the "Принял" messages sent: user and the now of the test

tables == <<processed, buffers, responses, user_state, interview_entries>>
history == <<deliveries, markedNew, started, appended, afterReset, rejected>>
side == <<clock, agg, nowMs, last_ack_at, ackTask, acks>>
vars == <<processed, buffers, responses, user_state, interview_entries,
          update, task, deliveries, markedNew, started, appended, afterReset,
          rejected,
          input, clock, agg, nowMs, last_ack_at, ackTask, acks>>

NoRow ==
  [exists |-> FALSE]

\* A buffers row.
BufferRow(text) ==
  [exists |-> TRUE, buffer_text |-> text]

\* data of a user_state row: the JSON object the wizard keeps; -1 is an
\* absent key.
EmptyData ==
  [screening |-> -1, hr |-> -1, technical |-> -1]

StateRow(state, data) ==
  [exists |-> TRUE, state |-> state, data |-> data]

NoEntry ==
  [screening |-> 0, hr |-> 0, technical |-> 0, offer |-> 0]

\* A task that was never started.
IdleTask ==
  [ pc        |-> "idle",
    failedAt  |-> "",
    existing  |-> FALSE,      \* appendToBuffer: the SELECT found a row
    bufferText |-> <<>>,      \* handleDoneImport: getBuffer(userId)
    parsed    |-> <<>>,       \* handleDoneImport: parseHHBuffer(bufferText)
    inserted  |-> 0,          \* handleDoneImport: addResponses(...).inserted
    duplicates |-> 0,         \* handleDoneImport: addResponses(...).duplicates
    nextState |-> NoRow,      \* the user_state row the wizard writes next
    entry     |-> NoEntry,    \* the interview entry the wizard inserts next
    total     |-> 0,          \* getUserStatsV2(...).total
    handled   |-> FALSE,      \* handleInterviewInput returned true
    cleared   |-> FALSE ]     \* this task has run clearBuffer

\* No aggregator call.
IdleAgg ==
  [ pc           |-> "idle",
    fn           |-> "",      \* "getUserStats" or "getUserStatsV2"
    userId       |-> 0,
    period       |-> "",      \* getUserStatsV2: "week", "month" or "all"
    days         |-> 0,       \* getUserStats: the window in days
    since        |-> <<>>,    \* getUserStats: the bound ISO string
    startedAt    |-> 0,       \* the time of the call
    quiet        |-> TRUE,    \* no insert and no tick since the call
    total        |-> 0,
    status       |-> {},      \* the rows of the GROUP BY status
    grade        |-> {},
    roleFamily   |-> {},
    topCompanies |-> <<>>,
    daily        |-> <<>> ]

\* 2024-02-01T12:00:00Z, in hours since 2024-01-01T00:00:00Z.
ClockStart ==
  31 * 24 + 12

\* The aggregators and the acknowledgement at rest.
SideIdle ==
  /\ clock = ClockStart
  /\ agg = IdleAgg
  /\ nowMs = 1000         \* Date.now(), in milliseconds
  /\ last_ack_at = [u \in Users |-> 0]
  /\ ackTask = [m \in 1..MaxAckTasks |->
                  [pc |-> "idle", userId |-> 0, last_ack_at |-> 0, now |-> 0]]
  /\ acks = <<>>

Init ==
  /\ processed = {}
  /\ buffers \in [Users -> {NoRow, BufferRow(TextBlock)}]
  /\ responses = <<>>
  /\ user_state = [u \in Users |-> NoRow]
  /\ interview_entries = <<>>
  /\ update = [id \in UpdateIds |-> NoUpdate]
  /\ task = [id \in UpdateIds |-> IdleTask]
  /\ deliveries = [id \in UpdateIds |-> 0]
  /\ markedNew = [id \in UpdateIds |-> 0]
  /\ started = [id \in UpdateIds |-> 0]
  /\ appended = [id \in UpdateIds |-> 0]
  /\ afterReset = [id \in UpdateIds |-> FALSE]
  /\ rejected = [id \in UpdateIds |-> 0]
  /\ input = <<>>
  /\ SideIdle

\* ------------------------------------------------------------------------
\* storage.ts: one operator per SQL statement
\* ------------------------------------------------------------------------

\* getBuffer: row?.buffer_text ?? ""
getBuffer(bufs, userId) ==
  IF bufs[userId].exists THEN bufs[userId].buffer_text ELSE <<>>

\* A clearBuffer that deletes nothing.
clearBufferNone(bufs, userId) ==
  bufs

\* clearBuffer: DELETE FROM buffers WHERE user_id = ?
clearBuffer(bufs, userId) ==
  [bufs EXCEPT ![userId] = NoRow]

\* appendToBuffer, first statement: SELECT 1 FROM buffers WHERE user_id = ?
appendSelect(bufs, userId) ==
  bufs[userId].exists

\* An UPDATE that concatenates without the '\n'.
appendUpdateNoSep(bufs, userId, text) ==
  IF bufs[userId].exists
  THEN [bufs EXCEPT ![userId] = BufferRow(bufs[userId].buffer_text \o text)]
  ELSE bufs

\* An UPDATE that replaces the text: SET buffer_text = ?.
appendUpdateOverwrite(bufs, userId, text) ==
  IF bufs[userId].exists
  THEN [bufs EXCEPT ![userId] = BufferRow(text)]
  ELSE bufs

\* appendToBuffer, UPDATE branch: buffer_text = buffer_text || '\n' || ?.
\* An UPDATE that matches no row changes nothing and raises no error.
appendUpdate(bufs, userId, text) ==
  IF bufs[userId].exists
  THEN [bufs EXCEPT ![userId] = BufferRow(bufs[userId].buffer_text \o <<10>> \o text)]
  ELSE bufs

\* appendToBuffer, INSERT branch: user_id is the PRIMARY KEY of buffers, so
\* the INSERT raises a constraint error when the row exists.
appendInsertFails(bufs, userId) ==
  bufs[userId].exists

appendInsert(bufs, userId, text) ==
  [bufs EXCEPT ![userId] = BufferRow(text)]

\* A gate that reports every update_id as new.
markChangesAlways(proc, updateId) ==
  1

\* markUpdateProcessed: meta.changes of INSERT ... ON CONFLICT(update_id) DO NOTHING
markChanges(proc, updateId) ==
  IF updateId \in proc THEN 0 ELSE 1

\* An INSERT INTO responses without the ON CONFLICT clause and without the
\* unique index.
insertChangesAlways(rows, userId, p) ==
  1

\* One INSERT INTO responses ... ON CONFLICT(user_id, hash) DO NOTHING:
\* meta.changes, given the rows present when the statement runs.
insertChanges(rows, userId, p) ==
  IF \E i \in 1..Len(rows) : rows[i].user_id = userId /\ rows[i].hash = p.hash
  THEN 0 ELSE 1

ResponseRow(rows, userId, p) ==
  [ id            |-> Len(rows) + 1,
    user_id       |-> userId,
    imported_at   |-> sqliteDatetime(clock),
    response_date |-> p.responseDate,
    company       |-> p.company,
    title         |-> p.title,
    status        |-> p.status,
    role_family   |-> p.roleFamily,
    grade         |-> p.grade,
    hash          |-> p.hash,
    raw           |-> p.raw ]

\* A batch whose every statement counts as an inserted row.
RECURSIVE insertBatchCountAll(_, _, _, _)
insertBatchCountAll(rows, userId, parsed, inserted) ==
  IF parsed = <<>> THEN [rows |-> rows, inserted |-> inserted]
  ELSE IF insertChanges(rows, userId, Head(parsed)) = 1
       THEN insertBatchCountAll(Append(rows, ResponseRow(rows, userId, Head(parsed))),
                                userId, Tail(parsed), inserted + 1)
       ELSE insertBatchCountAll(rows, userId, Tail(parsed), inserted + 1)

\* A batch of INSERT OR REPLACE statements: a conflicting row is deleted
\* and the new row is added.
RECURSIVE insertBatchReplace(_, _, _, _)
insertBatchReplace(rows, userId, parsed, inserted) ==
  IF parsed = <<>> THEN [rows |-> rows, inserted |-> inserted]
  ELSE LET p    == Head(parsed)
           kept == SelectSeq(rows, LAMBDA r : ~(r.user_id = userId /\ r.hash = p.hash))
       IN  insertBatchReplace(Append(kept, ResponseRow(rows, userId, p)),
                              userId, Tail(parsed), inserted + 1)

\* env.DB.batch(stmts): the statements run in order inside one transaction.
\* Returns the table and the sum of meta.changes.
RECURSIVE insertBatch(_, _, _, _)
insertBatch(rows, userId, parsed, inserted) ==
  IF parsed = <<>> THEN [rows |-> rows, inserted |-> inserted]
  ELSE IF insertChanges(rows, userId, Head(parsed)) = 1
       THEN insertBatch(Append(rows, ResponseRow(rows, userId, Head(parsed))),
                        userId, Tail(parsed), inserted + 1)
       ELSE insertBatch(rows, userId, Tail(parsed), inserted)

\* A COUNT(*) without the WHERE user_id = ? clause.
statsTotalAll(rows, userId) ==
  Len(rows)

\* getUserStatsV2: SELECT COUNT(*) AS total FROM responses WHERE user_id = ?
\* (the total that processUpdate reports; the clock of that specification
\* stands still, so every row lies inside the period window).
statsTotal(rows, userId) ==
  Len(SelectSeq(rows, LAMBDA r : r.user_id = userId))

\* ------------------------------------------------------------------------
\* index.ts: processUpdate and its handlers, one action per awaited statement
\* ------------------------------------------------------------------------

User(id) ==
  update[id].user

\* msg.text.trim()
Text(id) ==
  Trim(update[id].text)

\* A switch (cmd) whose default case falls through to the plain-text path.
commandRouteDefaultText(cmd) ==
  IF cmd \in {CmdInterviews, CmdSobes} THEN "startWizard"
  ELSE IF cmd = CmdCancel THEN "clearUserState"
  ELSE IF cmd \in {CmdNew, CmdReset} THEN "clearBuffer"
  ELSE IF cmd = CmdDone THEN "getBuffer"
  ELSE IF cmd \in {CmdStats, CmdReport, CmdExport, CmdCsv} THEN "stats"
  ELSE "getUserState"

\* The switch (cmd) of processUpdate: the first storage statement of the
\* command's case, or "done" when the case only sends a message.
commandRoute(cmd) ==
  IF cmd \in {CmdInterviews, CmdSobes} THEN "startWizard"
  ELSE IF cmd = CmdCancel THEN "clearUserState"
  ELSE IF cmd \in {CmdNew, CmdReset} THEN "clearBuffer"
  ELSE IF cmd = CmdDone THEN "getBuffer"
  ELSE IF cmd \in {CmdStats, CmdReport, CmdExport, CmdCsv} THEN "stats"
  ELSE "done"

\* Callback data that starts with "stats:", "report:" or "export:".
PeriodData ==
  { "stats:week", "stats:month", "stats:all",
    "report:week", "report:month", "report:all",
    "export:week", "export:month", "export:all" }

\* The if-chain on data of the callback_query branch.
callbackRoute(data) ==
  IF data = "new" THEN "clearBuffer"
  ELSE IF data = "done" THEN "getBuffer"
  ELSE IF data = "add_interviews" THEN "startWizard"
  ELSE IF data = "cancel" THEN "clearUserState"
  ELSE IF data \in PeriodData THEN "stats"
  ELSE "done"

\* Where processUpdate goes after ensureUser.
route(upd) ==
  IF upd.kind = "callback"
  THEN IF upd.data # "" /\ upd.data # "cancel"
       THEN "cbClearUserState"
       ELSE callbackRoute(upd.data)
  ELSE IF upd.text = <<>> THEN "done"
  ELSE IF StartsWith(Trim(upd.text), <<47>>)
       THEN commandRoute(SplitOn(Trim(upd.text), 32)[1])
       ELSE "getUserState"

\* handleDoneImport runs for /done and for the button "done".
IsFinalize(upd) ==
  IF upd.kind = "callback" THEN upd.data = "done"
  ELSE StartsWith(Trim(upd.text), <<47>>) /\ SplitOn(Trim(upd.text), 32)[1] = CmdDone

\* handleDoneImport with clearBuffer moved before addResponses.
doneImportNextClearFirst(pc) ==
  IF pc = "getBuffer" THEN "clearBuffer"
  ELSE IF pc = "clearBuffer" THEN "addResponses"
  ELSE "done"

\* The order of handleDoneImport's statements: getBuffer, addResponses,
\* clearBuffer.
doneImportNext(pc) ==
  IF pc = "getBuffer" THEN "addResponses"
  ELSE IF pc = "addResponses" THEN "clearBuffer"
  ELSE "done"

\* Number(data.key ?? 0)
OrZero(n) ==
  IF n = -1 THEN 0 ELSE n

\* handleInterviewInput reading the last number of the message instead of the
\* first.
wizardStepLast(st, text) ==
  LET counts   == parseCountsFromText(text)
      n        == IF Len(counts) >= 1 THEN counts[Len(counts)] ELSE -1
      consumed == [handled |-> TRUE, pc |-> "done", nextState |-> NoRow, entry |-> NoEntry]
      passed   == [handled |-> FALSE, pc |-> "appendSelect", nextState |-> NoRow, entry |-> NoEntry]
  IN  IF ~st.exists THEN passed
      ELSE IF st.state = "interviews_screening" /\ Len(counts) >= 4
        THEN IF \A i \in 1..4 : isValidCount(counts[i])
             THEN [consumed EXCEPT !.pc = "addInterviewEntry",
                                   !.entry = [screening |-> counts[1], hr |-> counts[2],
                                              technical |-> counts[3], offer |-> counts[4]]]
             ELSE consumed
      ELSE IF ~isValidCount(n) THEN consumed
      ELSE IF st.state = "interviews_screening"
        THEN [consumed EXCEPT !.pc = "setUserState",
                !.nextState = StateRow("interviews_hr", [st.data EXCEPT !.screening = n])]
      ELSE IF st.state = "interviews_hr"
        THEN [consumed EXCEPT !.pc = "setUserState",
                !.nextState = StateRow("interviews_technical", [st.data EXCEPT !.hr = n])]
      ELSE IF st.state = "interviews_technical"
        THEN [consumed EXCEPT !.pc = "setUserState",
                !.nextState = StateRow("interviews_offer", [st.data EXCEPT !.technical = n])]
      ELSE IF st.state = "interviews_offer"
        THEN [consumed EXCEPT !.pc = "addInterviewEntry",
                !.entry = [screening |-> OrZero(st.data.screening), hr |-> OrZero(st.data.hr),
                           technical |-> OrZero(st.data.technical), offer |-> n]]
      ELSE passed

\* handleInterviewInput returning false for a message without a valid number,
\* so that the message goes on to appendToBuffer.
wizardStepPassInvalid(st, text) ==
  LET counts   == parseCountsFromText(text)
      n        == IF Len(counts) >= 1 THEN counts[1] ELSE -1
      consumed == [handled |-> TRUE, pc |-> "done", nextState |-> NoRow, entry |-> NoEntry]
      passed   == [handled |-> FALSE, pc |-> "appendSelect", nextState |-> NoRow, entry |-> NoEntry]
  IN  IF ~st.exists THEN passed
      ELSE IF st.state = "interviews_screening" /\ Len(counts) >= 4
        THEN IF \A i \in 1..4 : isValidCount(counts[i])
             THEN [consumed EXCEPT !.pc = "addInterviewEntry",
                                   !.entry = [screening |-> counts[1], hr |-> counts[2],
                                              technical |-> counts[3], offer |-> counts[4]]]
             ELSE consumed
      ELSE IF ~isValidCount(n) THEN passed
      ELSE IF st.state = "interviews_screening"
        THEN [consumed EXCEPT !.pc = "setUserState",
                !.nextState = StateRow("interviews_hr", [st.data EXCEPT !.screening = n])]
      ELSE IF st.state = "interviews_hr"
        THEN [consumed EXCEPT !.pc = "setUserState",
                !.nextState = StateRow("interviews_technical", [st.data EXCEPT !.hr = n])]
      ELSE IF st.state = "interviews_technical"
        THEN [consumed EXCEPT !.pc = "setUserState",
                !.nextState = StateRow("interviews_offer", [st.data EXCEPT !.technical = n])]
      ELSE IF st.state = "interviews_offer"
        THEN [consumed EXCEPT !.pc = "addInterviewEntry",
                !.entry = [screening |-> OrZero(st.data.screening), hr |-> OrZero(st.data.hr),
                           technical |-> OrZero(st.data.technical), offer |-> n]]
      ELSE passed

\* handleInterviewInput after getUserState returned st: what it does next.
wizardStep(st, text) ==
  LET counts   == parseCountsFromText(text)
      n        == IF Len(counts) >= 1 THEN counts[1] ELSE -1
      consumed == [handled |-> TRUE, pc |-> "done", nextState |-> NoRow, entry |-> NoEntry]
      passed   == [handled |-> FALSE, pc |-> "appendSelect", nextState |-> NoRow, entry |-> NoEntry]
  IN  IF ~st.exists THEN passed
      ELSE IF st.state = "interviews_screening" /\ Len(counts) >= 4
        THEN IF \A i \in 1..4 : isValidCount(counts[i])
             THEN [consumed EXCEPT !.pc = "addInterviewEntry",
                                   !.entry = [screening |-> counts[1], hr |-> counts[2],
                                              technical |-> counts[3], offer |-> counts[4]]]
             ELSE consumed
      ELSE IF ~isValidCount(n) THEN consumed
      ELSE IF st.state = "interviews_screening"
        THEN [consumed EXCEPT !.pc = "setUserState",
                !.nextState = StateRow("interviews_hr", [st.data EXCEPT !.screening = n])]
      ELSE IF st.state = "interviews_hr"
        THEN [consumed EXCEPT !.pc = "setUserState",
                !.nextState = StateRow("interviews_technical", [st.data EXCEPT !.hr = n])]
      ELSE IF st.state = "interviews_technical"
        THEN [consumed EXCEPT !.pc = "setUserState",
                !.nextState = StateRow("interviews_offer", [st.data EXCEPT !.technical = n])]
      ELSE IF st.state = "interviews_offer"
        THEN [consumed EXCEPT !.pc = "addInterviewEntry",
                !.entry = [screening |-> OrZero(st.data.screening), hr |-> OrZero(st.data.hr),
                           technical |-> OrZero(st.data.technical), offer |-> n]]
      ELSE passed

\* The task t at its next statement; a finished task keeps only its results.
Goto(t, pc) ==
  IF pc = "done"
  THEN [t EXCEPT !.pc = "done", !.existing = FALSE, !.bufferText = <<>>, !.parsed = <<>>,
                 !.nextState = NoRow, !.entry = NoEntry]
  ELSE [t EXCEPT !.pc = pc]

\* processUpdate rejected at statement pc.
Failed(t, pc) ==
  [IdleTask EXCEPT !.pc = "failed", !.failedAt = pc, !.cleared = t.cleared,
                   !.handled = t.handled]

\* Number of redeliveries so far.
RECURSIVE Redelivered(_)
Redelivered(n) ==
  IF n = 0 THEN 0
  ELSE Redelivered(n - 1) + (IF deliveries[n] > 1 THEN deliveries[n] - 1 ELSE 0)

\* `if (!msg?.text) return` and `text.startsWith("/")`: a text message that
\* is not a command.
IsPlainText(upd) ==
  upd.kind = "message" /\ upd.text # <<>> /\ ~StartsWith(Trim(upd.text), <<47>>)

\* clearBuffer runs for /new, /reset and the button "new".
IsReset(upd) ==
  IF upd.kind = "callback" THEN upd.data = "new"
  ELSE /\ StartsWith(Trim(upd.text), <<47>>)
       /\ SplitOn(Trim(upd.text), 32)[1] \in {CmdNew, CmdReset}

\* POST /telegram with an update_id that was not sent before. Telegram
\* numbers updates in increasing order. afterReset (history, for the
\* properties): a reset of the user has returned, and the user has sent no
\* other reset and no finalize.
Deliver(id, upd) ==
  /\ deliveries[id] = 0
  /\ IF id = 1 THEN TRUE ELSE deliveries[id - 1] > 0
  /\ update' = [update EXCEPT ![id] = upd]
  /\ deliveries' = [deliveries EXCEPT ![id] = 1]
  /\ afterReset' = [afterReset EXCEPT ![id] =
       \E r \in UpdateIds \ {id} :
         /\ deliveries[r] > 0
         /\ IsReset(update[r])
         /\ update[r].user = upd.user
         /\ task[r].pc = "done"
         /\ \A k \in UpdateIds \ {id, r} :
              (deliveries[k] > 0 /\ update[k].user = upd.user)
                => (~IsReset(update[k]) /\ ~IsFinalize(update[k]))]
  /\ processed' = processed \cup {id}
  /\ IF markChanges(processed, id) = 1
     THEN /\ markedNew' = [markedNew EXCEPT ![id] = @ + 1]
          /\ started' = [started EXCEPT ![id] = @ + 1]
          /\ task' = [task EXCEPT ![id] = [IdleTask EXCEPT !.pc = "ensureUser"]]
     ELSE UNCHANGED <<markedNew, started, task>>
  /\ UNCHANGED <<buffers, responses, user_state, interview_entries, appended, rejected,
                 input, side>>

\* A webhook that starts processUpdate for a redelivery without asking the
\* gate.
RedeliverUngated(id) ==
  /\ deliveries[id] > 0
  /\ Redelivered(MaxUpdates) < MaxRedeliveries
  /\ deliveries' = [deliveries EXCEPT ![id] = @ + 1]
  /\ processed' = processed \cup {id}
  /\ started' = [started EXCEPT ![id] = @ + 1]
  /\ task' = [task EXCEPT ![id] = [IdleTask EXCEPT !.pc = "ensureUser"]]
  /\ UNCHANGED <<buffers, responses, user_state, interview_entries, update,
                 markedNew, appended, afterReset, rejected, input, side>>

\* POST /telegram with an update_id that was sent before (a redelivery).
Redeliver(id) ==
  /\ deliveries[id] > 0
  /\ Redelivered(MaxUpdates) < MaxRedeliveries
  /\ deliveries' = [deliveries EXCEPT ![id] = @ + 1]
  /\ processed' = processed \cup {id}
  /\ IF markChanges(processed, id) = 1
     THEN /\ markedNew' = [markedNew EXCEPT ![id] = @ + 1]
          /\ started' = [started EXCEPT ![id] = @ + 1]
          /\ task' = [task EXCEPT ![id] = [IdleTask EXCEPT !.pc = "ensureUser"]]
     ELSE UNCHANGED <<markedNew, started, task>>
  /\ UNCHANGED <<buffers, responses, user_state, interview_entries, update, appended,
                 afterReset, rejected, input, side>>

\* ensureUser, then the dispatch on the update up to the first statement.
EnsureUser(id) ==
  /\ task[id].pc = "ensureUser"
  /\ task' = [task EXCEPT ![id] = Goto(@, route(update[id]))]
  /\ UNCHANGED <<tables, update, history, input, side>>

\* clearUserState(...).catch(() => {}) of the callback branch.
CbClearUserState(id) ==
  /\ task[id].pc = "cbClearUserState"
  /\ user_state' = [user_state EXCEPT ![User(id)] = NoRow]
  /\ task' = [task EXCEPT ![id] = Goto(@, callbackRoute(update[id].data))]
  /\ UNCHANGED <<processed, buffers, responses, interview_entries, update, history, input, side>>

\* The same statement failing: the error is swallowed by catch.
CbClearUserStateError(id) ==
  /\ task[id].pc = "cbClearUserState"
  /\ task' = [task EXCEPT ![id] = Goto(@, callbackRoute(update[id].data))]
  /\ UNCHANGED <<tables, update, history, input, side>>

\* startInterviewWizard: setUserState(userId, "interviews_screening", {})
StartWizard(id) ==
  /\ task[id].pc = "startWizard"
  /\ user_state' = [user_state EXCEPT
                      ![User(id)] = StateRow("interviews_screening", EmptyData)]
  /\ task' = [task EXCEPT ![id] = Goto(@, "done")]
  /\ UNCHANGED <<processed, buffers, responses, interview_entries, update, history, input, side>>

\* handleInterviewInput: getUserState and the synchronous code after it.
GetUserState(id) ==
  /\ task[id].pc = "getUserState"
  /\ LET w == wizardStep(user_state[User(id)], Text(id))
     IN  task' = [task EXCEPT ![id] = Goto([@ EXCEPT !.handled = w.handled,
                                                      !.nextState = w.nextState,
                                                      !.entry = w.entry], w.pc)]
  /\ UNCHANGED <<tables, update, history, input, side>>

\* handleInterviewInput: setUserState(userId, next state, data)
SetUserState(id) ==
  /\ task[id].pc = "setUserState"
  /\ user_state' = [user_state EXCEPT ![User(id)] = task[id].nextState]
  /\ task' = [task EXCEPT ![id] = Goto(@, "done")]
  /\ UNCHANGED <<processed, buffers, responses, interview_entries, update, history, input, side>>

\* handleInterviewInput: addInterviewEntry(userId, counts)
AddInterviewEntry(id) ==
  /\ task[id].pc = "addInterviewEntry"
  /\ interview_entries' =
       Append(interview_entries,
              [ user_id |-> User(id), screening |-> task[id].entry.screening,
                hr |-> task[id].entry.hr, technical |-> task[id].entry.technical,
                offer |-> task[id].entry.offer ])
  /\ task' = [task EXCEPT ![id].pc = "clearUserState"]
  /\ UNCHANGED <<processed, buffers, responses, user_state, update, history, input, side>>

\* clearUserState(userId): after an interview entry, /cancel, button cancel
ClearUserState(id) ==
  /\ task[id].pc = "clearUserState"
  /\ user_state' = [user_state EXCEPT ![User(id)] = NoRow]
  /\ task' = [task EXCEPT ![id] = Goto(@, "done")]
  /\ UNCHANGED <<processed, buffers, responses, interview_entries, update, history, input, side>>

\* appendToBuffer: the SELECT
AppendSelect(id) ==
  /\ task[id].pc = "appendSelect"
  /\ task' = [task EXCEPT ![id].pc = "appendWrite",
                          ![id].existing = appendSelect(buffers, User(id))]
  /\ UNCHANGED <<tables, update, history, input, side>>

\* appendToBuffer: the UPDATE, when the SELECT found a row
AppendUpdate(id) ==
  /\ task[id].pc = "appendWrite"
  /\ task[id].existing
  /\ buffers' = appendUpdate(buffers, User(id), Text(id))
  /\ appended' = [appended EXCEPT ![id] = IF buffers[User(id)].exists THEN @ + 1 ELSE @]
  /\ task' = [task EXCEPT ![id] = Goto(@, "done")]
  /\ UNCHANGED <<processed, responses, user_state, interview_entries, update,
                 deliveries, markedNew, started, afterReset, rejected, input, side>>

\* appendToBuffer: the INSERT, when the SELECT found no row
AppendInsert(id) ==
  /\ task[id].pc = "appendWrite"
  /\ ~task[id].existing
  /\ IF appendInsertFails(buffers, User(id))
     THEN /\ task' = [task EXCEPT ![id] = Failed(@, "appendInsert")]
          /\ UNCHANGED <<buffers, appended>>
     ELSE /\ buffers' = appendInsert(buffers, User(id), Text(id))
          /\ appended' = [appended EXCEPT ![id] = @ + 1]
          /\ task' = [task EXCEPT ![id] = Goto(@, "done")]
  /\ UNCHANGED <<processed, responses, user_state, interview_entries, update,
                 deliveries, markedNew, started, afterReset, rejected, input, side>>

\* clearBuffer(userId): /new, /reset, button new, and handleDoneImport
ClearBuffer(id) ==
  /\ task[id].pc = "clearBuffer"
  /\ buffers' = clearBuffer(buffers, User(id))
  /\ task' = [task EXCEPT ![id] = Goto([@ EXCEPT !.cleared = TRUE],
                                        IF IsFinalize(update[id])
                                        THEN doneImportNext("clearBuffer")
                                        ELSE "done")]
  /\ UNCHANGED <<processed, responses, user_state, interview_entries, update, history, input, side>>

\* handleDoneImport without its two early returns.
GetBufferNoReturn(id) ==
  /\ task[id].pc = "getBuffer"
  /\ LET bufferText == getBuffer(buffers, User(id))
     IN  task' = [task EXCEPT ![id] = Goto([@ EXCEPT !.bufferText = bufferText,
                                                     !.parsed = parseHHBuffer(bufferText)],
                                            doneImportNext("getBuffer"))]
  /\ UNCHANGED <<tables, update, history, input, side>>

\* handleDoneImport: getBuffer, the two early returns, parseHHBuffer
GetBuffer(id) ==
  /\ task[id].pc = "getBuffer"
  /\ LET bufferText == getBuffer(buffers, User(id))
         parsed     == parseHHBuffer(bufferText)
     IN  IF bufferText = <<>> \/ Len(parsed) = 0
         THEN task' = [task EXCEPT ![id] = Goto(@, "done")]
         ELSE task' = [task EXCEPT ![id] = Goto([@ EXCEPT !.bufferText = bufferText,
                                                          !.parsed = parsed],
                                                 doneImportNext("getBuffer"))]
  /\ UNCHANGED <<tables, update, history, input, side>>

\* handleDoneImport: addResponses(userId, parsed)
AddResponses(id) ==
  /\ task[id].pc = "addResponses"
  /\ LET r == insertBatch(responses, User(id), task[id].parsed, 0)
     IN  /\ responses' = r.rows
         /\ task' = [task EXCEPT ![id] =
                        Goto([@ EXCEPT !.inserted = r.inserted,
                                       !.duplicates = Len(task[id].parsed) - r.inserted],
                             doneImportNext("addResponses"))]
  /\ UNCHANGED <<processed, buffers, user_state, interview_entries, update, history, input, side>>

\* getUserStatsV2(userId, period): the total
Stats(id) ==
  /\ task[id].pc = "stats"
  /\ task' = [task EXCEPT ![id] = Goto([@ EXCEPT !.total = statsTotal(responses, User(id))],
                                        "done")]
  /\ UNCHANGED <<tables, update, history, input, side>>

\* The statements whose error rejects processUpdate.
ThrowingSteps ==
  { "ensureUser", "startWizard", "getUserState", "setUserState", "addInterviewEntry",
    "clearUserState", "appendSelect", "appendWrite", "clearBuffer", "getBuffer",
    "addResponses", "stats" }

\* A statement fails (D1 unavailable): it changes no table, processUpdate
\* rejects, and the catch of POST /telegram sends the error message.
StorageError(id) ==
  /\ task[id].pc \in ThrowingSteps
  /\ task' = [task EXCEPT ![id] = Failed(@, task[id].pc)]
  /\ UNCHANGED <<tables, update, history, input, side>>

Next ==
  \/ \E id \in UpdateIds, upd \in Updates : Deliver(id, upd)
  \/ \E id \in UpdateIds : Redeliver(id)
  \/ \E id \in UpdateIds : EnsureUser(id)
  \/ \E id \in UpdateIds : CbClearUserState(id)
  \/ \E id \in UpdateIds : CbClearUserStateError(id)
  \/ \E id \in UpdateIds : StartWizard(id)
  \/ \E id \in UpdateIds : GetUserState(id)
  \/ \E id \in UpdateIds : SetUserState(id)
  \/ \E id \in UpdateIds : AddInterviewEntry(id)
  \/ \E id \in UpdateIds : ClearUserState(id)
  \/ \E id \in UpdateIds : AppendSelect(id)
  \/ \E id \in UpdateIds : AppendUpdate(id)
  \/ \E id \in UpdateIds : AppendInsert(id)
  \/ \E id \in UpdateIds : ClearBuffer(id)
  \/ \E id \in UpdateIds : GetBuffer(id)
  \/ \E id \in UpdateIds : AddResponses(id)
  \/ \E id \in UpdateIds : Stats(id)
  \/ \E id \in UpdateIds : StorageError(id)

Spec ==
  Init /\ [][Next]_vars

\* The rows of responses after user 1 pasted TextBlock and finalized.
FirstImport ==
  insertBatch(<<>>, 1, parseHHBuffer(TextBlock), 0).rows

\* The bot after earlier use by user 1: either the first import is stored
\* and the buffer is cleared, or the interview wizard is open (/interviews
\* was sent) and nothing is stored.
InitResumed ==
  /\ processed = {}
  /\ buffers = [u \in Users |-> NoRow]
  /\ interview_entries = <<>>
  /\ update = [id \in UpdateIds |-> NoUpdate]
  /\ task = [id \in UpdateIds |-> IdleTask]
  /\ deliveries = [id \in UpdateIds |-> 0]
  /\ markedNew = [id \in UpdateIds |-> 0]
  /\ started = [id \in UpdateIds |-> 0]
  /\ appended = [id \in UpdateIds |-> 0]
  /\ afterReset = [id \in UpdateIds |-> FALSE]
  /\ rejected = [id \in UpdateIds |-> 0]
  /\ input = <<>>
  /\ SideIdle
  /\ \/ /\ responses = FirstImport
        /\ user_state = [u \in Users |-> NoRow]
     \/ /\ responses = <<>>
        /\ user_state = [u \in Users |->
                           IF u = 1 THEN StateRow("interviews_screening", EmptyData)
                           ELSE NoRow]

SpecResumed ==
  InitResumed /\ [][Next]_vars

\* ------------------------------------------------------------------------
\* The parser model: parseHHBuffer applied to bounded inputs
\* ------------------------------------------------------------------------

InitParse ==
  /\ processed = {}
  /\ buffers = [u \in Users |-> NoRow]
  /\ responses = <<>>
  /\ user_state = [u \in Users |-> NoRow]
  /\ interview_entries = <<>>
  /\ update = [id \in UpdateIds |-> NoUpdate]
  /\ task = [id \in UpdateIds |-> IdleTask]
  /\ deliveries = [id \in UpdateIds |-> 0]
  /\ markedNew = [id \in UpdateIds |-> 0]
  /\ started = [id \in UpdateIds |-> 0]
  /\ appended = [id \in UpdateIds |-> 0]
  /\ afterReset = [id \in UpdateIds |-> FALSE]
  /\ rejected = [id \in UpdateIds |-> 0]
  /\ SideIdle
  /\ input \in {<<>>, ParseExample}

\* Number of "\n" in text.
NewLines(text) ==
  Len(SelectSeq(text, LAMBDA c : c = 10))

\* The pasted text grows by one line.
AddLine(l) ==
  /\ NewLines(input) < MaxParseLines
  /\ input' = input \o l \o <<10>>
  /\ UNCHANGED <<tables, update, task, history, side>>

NextParse ==
  \E l \in ParseLines : AddLine(l)

SpecParse ==
  InitParse /\ [][NextParse]_vars

\* ------------------------------------------------------------------------
\* The block model: parseHHBuffer applied to the lines of one response
\* ------------------------------------------------------------------------

\* Number of lines a block input is built from.
MaxBlockLines ==
  4

\* "5 февраля", "7 мая2024": a day and a month name. "Сегодня", "вчера":
\* date words. "Senior Product Manager", "Acme": a title and a company.
\* "Employer Logo Acme": a noise line. "Отказ": a status label.
BlockLines ==
  { <<53, 32, 1092, 1077, 1074, 1088, 1072, 1083, 1103>>,
    <<55, 32, 1084, 1072, 1103, 50, 48, 50, 52>>,
    <<1057, 1077, 1075, 1086, 1076, 1085, 1103>>,
    <<1074, 1095, 1077, 1088, 1072>>,
    <<83, 101, 110, 105, 111, 114, 32, 80, 114, 111, 100, 117, 99, 116, 32, 77, 97, 110, 97, 103, 101, 114>>,
    <<65, 99, 109, 101>>,
    <<69, 109, 112, 108, 111, 121, 101, 114, 32, 76, 111, 103, 111, 32, 65, 99, 109, 101>>,
    <<1054, 1090, 1082, 1072, 1079>> }

\* "Продакт-менеджер\nAcme Corp\nСегодня\nПросмотрен"
BlockExample ==
  <<1055, 1088, 1086, 1076, 1072, 1082, 1090, 45, 1084, 1077, 1085, 1077, 1076, 1078, 1077, 1088, 10, 65, 99, 109, 101, 32, 67, 111, 114, 112, 10, 1057, 1077, 1075, 1086, 1076, 1085, 1103, 10, 1055, 1088, 1086, 1089, 1084, 1086, 1090, 1088, 1077, 1085>>

\* No request has reached the webhook and every table is empty.
SystemIdle ==
  /\ processed = {}
  /\ buffers = [u \in Users |-> NoRow]
  /\ responses = <<>>
  /\ user_state = [u \in Users |-> NoRow]
  /\ interview_entries = <<>>
  /\ update = [id \in UpdateIds |-> NoUpdate]
  /\ task = [id \in UpdateIds |-> IdleTask]
  /\ deliveries = [id \in UpdateIds |-> 0]
  /\ markedNew = [id \in UpdateIds |-> 0]
  /\ started = [id \in UpdateIds |-> 0]
  /\ appended = [id \in UpdateIds |-> 0]
  /\ afterReset = [id \in UpdateIds |-> FALSE]
  /\ rejected = [id \in UpdateIds |-> 0]
  /\ SideIdle

InitBlock ==
  /\ SystemIdle
  /\ input \in {<<>>, BlockExample}

\* The pasted text grows by one line of a response.
AddBlockLine(l) ==
  /\ NewLines(input) < MaxBlockLines
  /\ input' = input \o l \o <<10>>
  /\ UNCHANGED <<tables, update, task, history, side>>

NextBlock ==
  \E l \in BlockLines : AddBlockLine(l)

SpecBlock ==
  InitBlock /\ [][NextBlock]_vars

\* ------------------------------------------------------------------------
\* The title model: detectRoleFamily and detectGrade applied to titles
\* ------------------------------------------------------------------------

\* Number of words a title is built from.
MaxTitleWords ==
  3

\* "Product", "Маркетинг", "Analyst", "Проект": role keywords. "Junior",
\* "Стажёр", "Lead": grade markers. "Manager": neither.
TitleWords ==
  { <<80, 114, 111, 100, 117, 99, 116>>,
    <<1052, 1072, 1088, 1082, 1077, 1090, 1080, 1085, 1075>>,
    <<65, 110, 97, 108, 121, 115, 116>>,
    <<1055, 1088, 1086, 1077, 1082, 1090>>,
    <<74, 117, 110, 105, 111, 114>>,
    <<76, 101, 97, 100>>,
    <<1057, 1090, 1072, 1078, 1105, 1088>>,
    <<77, 97, 110, 97, 103, 101, 114>> }

\* Number of words of a title built from TitleWords.
WordCount(title) ==
  IF title = <<>> THEN 0 ELSE Len(SelectSeq(title, LAMBDA c : c = 32)) + 1

InitTitle ==
  /\ SystemIdle
  /\ input = <<>>

\* The title grows by one word.
AddWord(w) ==
  /\ WordCount(input) < MaxTitleWords
  /\ input' = IF input = <<>> THEN w ELSE input \o <<32>> \o w
  /\ UNCHANGED <<tables, update, task, history, side>>

NextTitle ==
  \E w \in TitleWords : AddWord(w)

SpecTitle ==
  InitTitle /\ [][NextTitle]_vars

\* ------------------------------------------------------------------------
\* The text model: parseHHBuffer applied to lines of arbitrary characters
\* ------------------------------------------------------------------------

\* Number of lines a text input is built from.
MaxTextLines ==
  3

\* "", "Отказ", "Тестовое", a label between U+00A0 and "\r", a label
\* followed by U+200B, a line with an emoji (a surrogate pair) and "€", a
\* line with a lone surrogate and a CJK character, "Junior Product".
TextLines ==
  { <<>>,
    <<1054, 1090, 1082, 1072, 1079>>,
    <<160, 1054, 1090, 1082, 1072, 1079, 13>>,
    <<1054, 1090, 1082, 1072, 1079, 8203>>,
    <<55357, 56832, 32, 83, 101, 110, 105, 111, 114, 32, 1072, 1085, 1072, 1083, 1080, 1090, 1080, 1082, 32, 8364>>,
    <<55357, 32887>>,
    <<74, 117, 110, 105, 111, 114, 32, 80, 114, 111, 100, 117, 99, 116>>,
    <<1058, 1077, 1089, 1090, 1086, 1074, 1086, 1077>> }

InitText ==
  /\ SystemIdle
  /\ input = <<>>

\* The text grows by one line.
AddTextLine(l) ==
  /\ NewLines(input) < MaxTextLines
  /\ input' = input \o l \o <<10>>
  /\ UNCHANGED <<tables, update, task, history, side>>

NextText ==
  \E l \in TextLines : AddTextLine(l)

SpecText ==
  InitText /\ [][NextText]_vars

\* ------------------------------------------------------------------------
\* The hash model: fnv1a64Hex applied to strings of code units
\* ------------------------------------------------------------------------

\* Length of the strings given to fnv1a64Hex.
MaxHashLen ==
  3

\* "a", "b", U+0000, "я", U+FFFF and the high surrogate U+D83D.
HashUnits ==
  {97, 98, 0, 1103, 65535, 55357}

InitHash ==
  /\ SystemIdle
  /\ input = <<>>

\* The string grows by one code unit.
AddUnit(c) ==
  /\ Len(input) < MaxHashLen
  /\ input' = Append(input, c)
  /\ UNCHANGED <<tables, update, task, history, side>>

NextHash ==
  \E c \in HashUnits : AddUnit(c)

SpecHash ==
  InitHash /\ [][NextHash]_vars

\* ------------------------------------------------------------------------
\* The aggregators: getUserStats (storage.ts) and getUserStatsV2
\* ------------------------------------------------------------------------
\* Every awaited query is one step; rows are inserted and the time passes
\* between the steps. The caller takes the result in the state in which the
\* last query left it. getInterviewSums, the last query of getUserStatsV2,
\* reads another table and is left out.

\* Hours the clock may move past ClockStart.
MaxHours ==
  168

\* Number of rows in the table responses.
MaxStored ==
  2

\* The finalize calls: the user and the records parsed from the buffer,
\* "Product Manager / Acme / Сегодня / Отказ" or "Team Lead / Beta / Отказ".
StatsInserts ==
  LET text1 == <<80, 114, 111, 100, 117, 99, 116, 32, 77, 97, 110, 97, 103, 101, 114, 10, 65, 99, 109, 101, 10, 1057, 1077, 1075, 1086, 1076, 1085, 1103, 10, 1054, 1090, 1082, 1072, 1079>>
      text2 == <<84, 101, 97, 109, 32, 76, 101, 97, 100, 10, 66, 101, 116, 97, 10, 1054, 1090, 1082, 1072, 1079>>
  IN  { [userId |-> 1, parsed |-> parseHHBuffer(text1)],
        [userId |-> 1, parsed |-> parseHHBuffer(text2)],
        [userId |-> 2, parsed |-> parseHHBuffer(text1)] }

\* buildPeriodWhere(period), as a condition on the row r when the statement
\* runs at time now: "" or " AND imported_at >= datetime('now', '-N days')".
buildPeriodWhere(r, period, now) ==
  IF period = "all" THEN TRUE
  ELSE LET days == IF period = "week" THEN 7 ELSE 30
       IN  TextGE(r.imported_at, sqliteDatetime(now - days * 24))

\* getUserStatsV2: FROM responses WHERE user_id = ?${p.where}
selectV2(rows, userId, period, now) ==
  SelectSeq(rows, LAMBDA r : r.user_id = userId /\ buildPeriodWhere(r, period, now))

\* getUserStats: FROM responses WHERE user_id = ? AND imported_at >= ?
selectV1(rows, userId, since) ==
  SelectSeq(rows, LAMBDA r : r.user_id = userId /\ TextGE(r.imported_at, since))

\* SELECT <column> AS name, COUNT(*) AS count ... GROUP BY <column>: the
\* result rows. The column "date" is strftime('%Y-%m-%d', imported_at).
GroupBy(sel, column) ==
  LET Key(r) == IF column = "date" THEN SubSeq(r.imported_at, 1, 10) ELSE r[column]
  IN  { [name |-> k, count |-> Cardinality({i \in 1..Len(sel) : Key(sel[i]) = k})] :
          k \in {Key(sel[i]) : i \in 1..Len(sel)} }

\* getUserStats: LIMIT 5
TopLimitV1 ==
  5

\* getUserStatsV2: LIMIT 8
TopLimitV2 ==
  8

\* ORDER BY count DESC LIMIT k: the results the statement can return. SQL
\* leaves the order of rows with equal counts to the query plan.
orderByCountDesc(groups, k) ==
  LET n == Cardinality(groups)
  IN  { SubSeq(s, 1, IF n < k THEN n ELSE k) :
          s \in { t \in [1..n -> groups] :
                    \A i, j \in 1..n :
                      i < j => (t[i] # t[j] /\ t[i].count >= t[j].count) } }

\* ORDER BY date (the dates of the groups differ).
orderByDate(groups) ==
  LET n == Cardinality(groups)
  IN  CHOOSE s \in [1..n -> groups] :
        \A i, j \in 1..n : i < j => (s[i] # s[j] /\ TextGE(s[j].name, s[i].name))

\* The time passes.
StatsTick(h) ==
  /\ agg.pc # "done"
  /\ clock + h <= ClockStart + MaxHours
  /\ clock' = clock + h
  /\ agg' = [agg EXCEPT !.quiet = IF agg.pc = "idle" THEN @ ELSE FALSE]
  /\ UNCHANGED <<tables, update, task, history, input, nowMs, last_ack_at, ackTask, acks>>

\* addResponses(userId, parsed) of a finalize.
StatsInsert(userId, parsed) ==
  /\ agg.pc # "done"
  /\ Len(responses) < MaxStored
  /\ responses' = insertBatch(responses, userId, parsed, 0).rows
  /\ agg' = [agg EXCEPT !.quiet = IF agg.pc = "idle" THEN @ ELSE FALSE]
  /\ UNCHANGED <<processed, buffers, user_state, interview_entries, update, task,
                 history, input, clock, nowMs, last_ack_at, ackTask, acks>>

\* getUserStatsV2(env, userId, period): the call, its queries in the order
\* of the awaits (total; by status; by grade; by role_family; the top
\* companies), and the return.
getUserStatsV2(userId, period) ==
  /\ \/ /\ agg.pc = "idle"
        /\ agg' = [IdleAgg EXCEPT !.pc = "v2total", !.fn = "getUserStatsV2",
                                  !.userId = userId, !.period = period,
                                  !.startedAt = clock]
     \/ /\ agg.pc = "v2total"
        /\ agg.userId = userId /\ agg.period = period
        /\ agg' = [agg EXCEPT !.pc = "v2status",
                              !.total = Len(selectV2(responses, userId, period, clock))]
     \/ /\ agg.pc = "v2status"
        /\ agg.userId = userId /\ agg.period = period
        /\ agg' = [agg EXCEPT !.pc = "v2grade",
                              !.status = GroupBy(selectV2(responses, userId, period, clock), "status")]
     \/ /\ agg.pc = "v2grade"
        /\ agg.userId = userId /\ agg.period = period
        /\ agg' = [agg EXCEPT !.pc = "v2role",
                              !.grade = GroupBy(selectV2(responses, userId, period, clock), "grade")]
     \/ /\ agg.pc = "v2role"
        /\ agg.userId = userId /\ agg.period = period
        /\ agg' = [agg EXCEPT !.pc = "v2top",
                              !.roleFamily = GroupBy(selectV2(responses, userId, period, clock), "role_family")]
     \/ /\ agg.pc = "v2top"
        /\ agg.userId = userId /\ agg.period = period
        /\ \E top \in orderByCountDesc(GroupBy(selectV2(responses, userId, period, clock), "company"),
                                       TopLimitV2) :
             agg' = [agg EXCEPT !.pc = "done", !.topCompanies = top]
     \/ /\ agg.pc = "done"
        /\ agg.fn = "getUserStatsV2"
        /\ agg.userId = userId /\ agg.period = period
        /\ agg' = IdleAgg
  /\ UNCHANGED <<tables, update, task, history, input, clock, nowMs, last_ack_at, ackTask, acks>>

\* getUserStats(env, userId, days): the call, which computes since once,
\* its queries in the order of the awaits (total; by status; the top
\* companies; by day), and the return.
getUserStats(userId, days) ==
  /\ \/ /\ agg.pc = "idle"
        /\ agg' = [IdleAgg EXCEPT !.pc = "v1total", !.fn = "getUserStats",
                                  !.userId = userId, !.days = days,
                                  !.since = toISOString(clock - days * 24),
                                  !.startedAt = clock]
     \/ /\ agg.pc = "v1total"
        /\ agg.userId = userId /\ agg.days = days
        /\ agg' = [agg EXCEPT !.pc = "v1status",
                              !.total = Len(selectV1(responses, userId, agg.since))]
     \/ /\ agg.pc = "v1status"
        /\ agg.userId = userId /\ agg.days = days
        /\ agg' = [agg EXCEPT !.pc = "v1top",
                              !.status = GroupBy(selectV1(responses, userId, agg.since), "status")]
     \/ /\ agg.pc = "v1top"
        /\ agg.userId = userId /\ agg.days = days
        /\ \E top \in orderByCountDesc(GroupBy(selectV1(responses, userId, agg.since), "company"),
                                       TopLimitV1) :
             agg' = [agg EXCEPT !.pc = "v1daily", !.topCompanies = top]
     \/ /\ agg.pc = "v1daily"
        /\ agg.userId = userId /\ agg.days = days
        /\ agg' = [agg EXCEPT !.pc = "done",
                              !.daily = orderByDate(GroupBy(selectV1(responses, userId, agg.since), "date"))]
     \/ /\ agg.pc = "done"
        /\ agg.fn = "getUserStats"
        /\ agg.userId = userId /\ agg.days = days
        /\ agg' = IdleAgg
  /\ UNCHANGED <<tables, update, task, history, input, clock, nowMs, last_ack_at, ackTask, acks>>

\* The tables, the tasks and the pure-function input at rest.
InitSide ==
  /\ SystemIdle
  /\ input = <<>>

\* The aggregators with the rows and the clock moving under them: clock
\* steps of 3 and 3.5 days, the windows "week" and "all" of getUserStatsV2
\* and the 7 days of getUserStats.
SpecStats ==
  InitSide /\
     [][\/ \E h \in {72, 84} : StatsTick(h)
        \/ \E ins \in StatsInserts : StatsInsert(ins.userId, ins.parsed)
        \/ \E u \in Users, period \in {"week", "all"} : getUserStatsV2(u, period)
        \/ \E u \in Users, days \in {7} : getUserStats(u, days)]_vars

\* ------------------------------------------------------------------------
\* The acknowledgement "Принял": processUpdate for plain-text messages
\* ------------------------------------------------------------------------
\* The tasks of the plain-text messages of users without an open wizard:
\* ensureUser, appendToBuffer (its statements are steps of Spec; here it is
\* one step that leaves the table users alone), the test on last_ack_at,
\* updateLastAckAt and sendTelegramMessage.

\* `now - user.last_ack_at > 5000`
AckIntervalMs ==
  5000

\* The last Date.now() of this model, which starts at 1000.
MaxAckMs ==
  8000

\* processUpdate for the plain-text message m of user u, one await per
\* step. Messages are numbered in the order of their arrival.
AckProcessUpdate(m, u) ==
     \* POST /telegram starts processUpdate
  \/ /\ ackTask[m].pc = "idle"
     /\ IF m = 1 THEN TRUE ELSE ackTask[m - 1].pc # "idle"
     /\ ackTask' = [ackTask EXCEPT ![m] = [pc |-> "ensureUser", userId |-> u,
                                           last_ack_at |-> 0, now |-> 0]]
     /\ UNCHANGED <<tables, update, task, history, input, clock, agg, nowMs, last_ack_at, acks>>
     \* const user = await ensureUser(...): the row with its last_ack_at
  \/ /\ ackTask[m].pc = "ensureUser"
     /\ ackTask[m].userId = u
     /\ ackTask' = [ackTask EXCEPT ![m] = [@ EXCEPT !.pc = "appendToBuffer",
                                                     !.last_ack_at = last_ack_at[u]]]
     /\ UNCHANGED <<tables, update, task, history, input, clock, agg, nowMs, last_ack_at, acks>>
     \* await appendToBuffer(...); const now = Date.now(); the test
     \* `!user.last_ack_at || now - user.last_ack_at > 5000`
  \/ /\ ackTask[m].pc = "appendToBuffer"
     /\ ackTask[m].userId = u
     /\ LET user == ackTask[m]
            now  == nowMs
        IN  ackTask' = [ackTask EXCEPT ![m] =
              [@ EXCEPT !.now = now,
                        !.pc = IF user.last_ack_at = 0 \/ now - user.last_ack_at > AckIntervalMs
                               THEN "updateLastAckAt" ELSE "done"]]
     /\ UNCHANGED <<tables, update, task, history, input, clock, agg, nowMs, last_ack_at, acks>>
     \* await updateLastAckAt(env, userId, now)
  \/ /\ ackTask[m].pc = "updateLastAckAt"
     /\ ackTask[m].userId = u
     /\ last_ack_at' = [last_ack_at EXCEPT ![u] = ackTask[m].now]
     /\ ackTask' = [ackTask EXCEPT ![m] = [@ EXCEPT !.pc = "sendTelegramMessage"]]
     /\ UNCHANGED <<tables, update, task, history, input, clock, agg, nowMs, acks>>
     \* await sendTelegramMessage(env, chatId, "Принял. ...")
  \/ /\ ackTask[m].pc = "sendTelegramMessage"
     /\ ackTask[m].userId = u
     /\ acks' = Append(acks, [userId |-> u, now |-> ackTask[m].now])
     /\ ackTask' = [ackTask EXCEPT ![m] = [@ EXCEPT !.pc = "done"]]
     /\ UNCHANGED <<tables, update, task, history, input, clock, agg, nowMs, last_ack_at>>

\* The time passes.
AckTick(ms) ==
  /\ nowMs + ms <= MaxAckMs
  /\ nowMs' = nowMs + ms
  /\ UNCHANGED <<tables, update, task, history, input, clock, agg, last_ack_at, ackTask, acks>>

\* The plain-text messages of the users, with clock steps of 1 and 5
\* seconds.
SpecAck ==
  InitSide /\
     [][\/ \E m \in 1..MaxAckTasks, u \in Users : AckProcessUpdate(m, u)
        \/ \E ms \in {1000, 5000} : AckTick(ms)]_vars

\* ------------------------------------------------------------------------
\* Properties
\* ------------------------------------------------------------------------

\* processUpdate has returned or rejected.
Finished(id) ==
  task[id].pc \in {"done", "failed"}

\* The rows of a table that belong to user v (WHERE user_id = ?).
RowsOf(rows, v) ==
  SelectSeq(rows, LAMBDA r : r.user_id = v)

\* C1: among all calls markUpdateProcessed(id), exactly one returns true and
\* every other call returns false; an id once recorded stays in
\* processed_updates in every later state.
C1_GateExactlyOnce ==
  \A id \in UpdateIds :
    /\ (deliveries[id] = 0) => (markedNew[id] = 0)
    /\ (deliveries[id] >= 1) => (markedNew[id] = 1 /\ id \in processed)

\* An update_id delivered a second time while its first processing is
\* still under way.
C1_Witness ==
  \E id \in UpdateIds :
    deliveries[id] = 2 /\ markedNew[id] = 1 /\ task[id].pc = "ensureUser"

\* C2: processUpdate is started at most once per update_id over all its
\* deliveries, and a redelivery changes no buffer, no record, no wizard
\* state and starts no processing.
C2_ProcessedAtMostOnce ==
  [][\A id \in UpdateIds :
       /\ started'[id] <= 1
       /\ (deliveries[id] >= 1 /\ deliveries'[id] = deliveries[id] + 1)
            => /\ buffers' = buffers
               /\ responses' = responses
               /\ interview_entries' = interview_entries
               /\ user_state' = user_state
               /\ task' = task
               /\ started' = started]_vars

\* A text update that was appended and delivered again afterwards.
C2_Witness ==
  \E id \in UpdateIds :
    deliveries[id] >= 2 /\ started[id] = 1 /\ appended[id] = 1 /\ task[id].pc = "done"

\* C3: every plain-text update that the wizard did not consume has its text
\* appended to the buffer exactly once when its processing has ended, and,
\* when that processing failed, once it has been delivered again.
C3_EveryTextAppendedOnce ==
  \A id \in UpdateIds :
    ( /\ IsPlainText(update[id])
      /\ ~task[id].handled
      /\ \/ task[id].pc = "done"
         \/ task[id].pc = "failed" /\ deliveries[id] >= 2 )
    => appended[id] = 1

\* C4: two appendToBuffer calls of one user, with no storage outage, both
\* complete without error and the buffer holds both texts, each once.
C4_ConcurrentAppendsBothStored ==
  \A i, j \in UpdateIds :
    ( /\ i < j
      /\ IsPlainText(update[i]) /\ IsPlainText(update[j])
      /\ update[i].user = update[j].user
      /\ Finished(i) /\ Finished(j)
      /\ task[i].failedAt \notin ThrowingSteps
      /\ task[j].failedAt \notin ThrowingSteps
      /\ ~task[i].handled /\ ~task[j].handled )
    => LET ti == Trim(update[i].text)
           tj == Trim(update[j].text)
           u  == update[i].user
       IN  /\ task[i].pc = "done" /\ task[j].pc = "done"
           /\ appended[i] = 1 /\ appended[j] = 1
           /\ buffers[u].exists
           /\ buffers[u].buffer_text \in
                { ti \o <<10>> \o tj,
                  tj \o <<10>> \o ti,
                  TextBlock \o <<10>> \o ti \o <<10>> \o tj,
                  TextBlock \o <<10>> \o tj \o <<10>> \o ti }

\* C5: the responses table holds at most one row per (user_id, hash).
C5_UniqueUserHash ==
  \A i, j \in 1..Len(responses) :
    (responses[i].user_id = responses[j].user_id /\ responses[i].hash = responses[j].hash)
      => i = j

\* An addResponses call has returned with a record it did not insert,
\* because the row was there.
C5_Witness ==
  \E id \in UpdateIds :
    /\ IsFinalize(update[id])
    /\ task[id].pc = "clearBuffer"
    /\ Len(task[id].parsed) >= 1
    /\ task[id].inserted < Len(task[id].parsed)
    /\ Len(responses) >= 1

\* C6: in a finalize, the buffer changes only in the clearBuffer statement,
\* that statement is reached only from an addResponses that returned, and
\* an addResponses that fails leaves the buffer as it is.
C6_ClearOnlyAfterInsert ==
  [][\A id \in UpdateIds :
       (IsFinalize(update[id]) /\ task'[id] # task[id]) =>
         /\ (buffers' # buffers) => (task[id].pc = "clearBuffer")
         /\ (task'[id].pc = "clearBuffer") =>
              /\ task[id].pc = "addResponses"
              /\ responses' = insertBatch(responses, update[id].user, task[id].parsed, 0).rows
         /\ (task[id].pc = "addResponses" /\ task'[id].pc = "failed") =>
              (buffers' = buffers /\ ~task'[id].cleared)]_vars

\* A finalize whose addResponses failed, with the buffer still there.
C6_Witness ==
  \E id \in UpdateIds :
    /\ IsFinalize(update[id])
    /\ task[id].pc = "failed"
    /\ task[id].failedAt = "addResponses"
    /\ buffers[update[id].user] = BufferRow(TextBlock)

\* C7: for sequential calls (the row is as the SELECT saw it), appendToBuffer
\* on an absent buffer creates the row with exactly the text and on an
\* existing buffer sets it to old text, "\n", new text; getBuffer returns
\* the text, or "" when no row exists; after clearBuffer it returns "".
C7_BufferSequentialSemantics ==
  [][/\ \A id \in UpdateIds :
          /\ ( /\ task[id].pc = "appendWrite"
               /\ task'[id].pc = "done"
               /\ task[id].existing = buffers[update[id].user].exists )
             => LET u == update[id].user
                    t == Trim(update[id].text)
                IN  /\ buffers'[u].exists
                    /\ buffers'[u].buffer_text =
                         IF buffers[u].exists
                         THEN buffers[u].buffer_text \o <<10>> \o t
                         ELSE t
          /\ (task[id].pc = "clearBuffer" /\ task'[id].pc = "done")
             => getBuffer(buffers', update[id].user) = <<>>
          /\ (task[id].pc = "getBuffer" /\ task'[id].pc = "addResponses")
             => LET u == update[id].user
                IN  task'[id].parsed =
                      parseHHBuffer(IF buffers[u].exists THEN buffers[u].buffer_text ELSE <<>>)
     /\ \A u \in Users :
          getBuffer(buffers', u) = IF buffers'[u].exists THEN buffers'[u].buffer_text ELSE <<>>]_vars

\* append(u, "C"); append(u, "5") on an absent buffer: the buffer reads "C\n5".
C7_Witness ==
  \E u \in Users :
    /\ getBuffer(buffers, u) = TextLine \o <<10>> \o TextCount
    /\ \A id \in UpdateIds : task[id].pc = "done" /\ appended[id] = 1

\* C8: a finalize whose addResponses returned goes on to clearBuffer, a
\* reset ends only through clearBuffer, and when clearBuffer has run the
\* user's buffer reads "".
C8_BufferEmptyAfterFinalizeOrReset ==
  [][\A id \in UpdateIds :
       (task'[id] # task[id] /\ task[id].pc # "idle") =>
         /\ (task[id].pc = "addResponses" /\ task'[id].pc # "failed")
              => task'[id].pc = "clearBuffer"
         /\ (task[id].pc = "clearBuffer" /\ task'[id].pc # "failed")
              => /\ task'[id].pc = "done"
                 /\ task'[id].cleared
                 /\ getBuffer(buffers', update[id].user) = <<>>
         /\ (IsReset(update[id]) /\ task'[id].pc = "done")
              => task[id].pc = "clearBuffer"]_vars

\* A finalize that inserted a record and a reset have both ended, and both
\* users' buffers read "".
C8_Witness ==
  \E i, j \in UpdateIds :
    /\ IsFinalize(update[i]) /\ task[i].pc = "done" /\ task[i].inserted >= 1
    /\ task[i].cleared
    /\ IsReset(update[j]) /\ task[j].pc = "done" /\ task[j].cleared
    /\ \A u \in Users : getBuffer(buffers, u) = <<>>

\* C9: a step of processUpdate for user u leaves the buffer, the records and
\* the wizard state of every other user unchanged, and the stats total for
\* u is the number of responses rows whose user_id is u.
C9_OtherUsersUntouched ==
  [][\A id \in UpdateIds :
       (task'[id] # task[id]) =>
         LET u == update'[id].user
         IN  /\ \A v \in Users \ {u} :
                  /\ buffers'[v] = buffers[v]
                  /\ user_state'[v] = user_state[v]
                  /\ RowsOf(responses', v) = RowsOf(responses, v)
                  /\ RowsOf(interview_entries', v) = RowsOf(interview_entries, v)
             /\ (task[id].pc = "stats" /\ task'[id].pc = "done")
                  => task'[id].total =
                       Cardinality({i \in 1..Len(responses) : responses[i].user_id = u})]_vars

\* A stats query of one user has ended while the table holds a row of the
\* other user, whose wizard is open.
C9_Witness ==
  \E id \in UpdateIds :
    /\ route(update[id]) = "stats"
    /\ task[id].pc = "done"
    /\ task[id].total = 0
    /\ \E i \in 1..Len(responses) : responses[i].user_id # update[id].user

\* The positions of the status lines.
StatusAt(lines) ==
  {i \in 1..Len(lines) : lines[i] \in VALID_STATUSES}

\* The position of the last status line before position i, or 0.
PrevStatus(lines, i) ==
  LET before == {j \in StatusAt(lines) : j < i}
  IN  IF before = {} THEN 0 ELSE CHOOSE j \in before : \A k \in before : k <= j

\* The status lines with at least one line since the previous status line.
Closing(lines) ==
  {i \in StatusAt(lines) : PrevStatus(lines, i) < i - 1}

\* One block per closing status line, in input order: the lines since the
\* previous status line, and the status.
ExpectedCalls(lines) ==
  LET c      == Closing(lines)
      nth(k) == CHOOSE i \in c : Cardinality({j \in c : j < i}) = k - 1
  IN  [k \in 1..Cardinality(c) |->
         [block  |-> SubSeq(lines, PrevStatus(lines, nth(k)) + 1, nth(k) - 1),
          status |-> lines[nth(k)]]]

\* C10: before deduplication parseHHBuffer emits one record for each status
\* line preceded by at least one non-noise, non-status line since the
\* previous status line, in input order, with that status and exactly those
\* lines as its block; other status lines and trailing lines emit nothing;
\* a line that is not a status label after trimming closes no block.
C10_OneRecordPerClosedBlock ==
  LET lines == CleanLines(input)
      want  == ExpectedCalls(lines)
      out   == FlushedRecords(input)
  IN  /\ FlushCalls(input) = want
      /\ Len(out) = Cardinality(Closing(lines))
      /\ \A k \in 1..Len(out) : out[k] = flush(want[k].block, want[k].status)
      /\ \A k \in 1..Len(out) : out[k].status = want[k].status
      /\ (input = ParseExample) =>
           FlushCalls(input) =
             << [block |-> <<<<70, 111, 111>>, <<66, 97, 114>>>>, status |-> <<1055, 1088, 1086, 1089, 1084, 1086, 1090, 1088, 1077, 1085>>],
                [block |-> <<<<66, 97, 122>>, <<81, 117, 120>>>>, status |-> <<1054, 1090, 1082, 1072, 1079>>] >>

\* An input with a block that holds "отказ", a status line with nothing
\* before it, and a trailing line.
C10_Witness ==
  LET lines == CleanLines(input)
      calls == FlushCalls(input)
  IN  /\ Len(calls) >= 1
      /\ calls[1].block = <<<<1086, 1090, 1082, 1072, 1079>>>>
      /\ Cardinality(StatusAt(lines)) > Len(calls)
      /\ Len(lines) >= 1
      /\ lines[Len(lines)] \notin VALID_STATUSES

\* A date token as the specification describes it, on a lower-cased line
\* at position i: one or two digits that no digit precedes, white space,
\* and a run of Cyrillic letters that is a month name.
DayMonthAt(line, i) ==
  LET dEnd  == RunEnd(line, i, 48..57)
      wsEnd == RunEnd(line, dEnd + 1, WhiteSpace)
      ltEnd == RunEnd(line, wsEnd + 1, CyrLetters)
  IN  IF /\ IsDigit(line[i])
         /\ (i = 1 \/ ~IsDigit(line[i - 1]))
         /\ dEnd - i + 1 <= 2
         /\ wsEnd >= dEnd + 1
         /\ ltEnd >= wsEnd + 1
         /\ SubSeq(line, wsEnd + 1, ltEnd) \in MONTHS
      THEN [matched |-> TRUE,
            date    |-> SubSeq(line, i, dEnd) \o <<32>> \o SubSeq(line, wsEnd + 1, ltEnd)]
      ELSE NoMatch

\* The date a line stands for: the line itself when it is the word for
\* today or yesterday, "<day> <month>" of its first day-and-month, or none.
DateToken(l) ==
  LET line   == ToLowerCase(l)
      starts == {i \in 1..Len(line) : DayMonthAt(line, i).matched}
  IN  IF line \in {TODAY, YESTERDAY} THEN [matched |-> TRUE, date |-> l]
      ELSE IF starts = {} THEN NoMatch
      ELSE DayMonthAt(line, CHOOSE i \in starts : \A j \in starts : i <= j)

\* The lines of a block that are date tokens, and those that are not.
TokenLines(block) ==
  SelectSeq(block, LAMBDA l : DateToken(l).matched)

OtherLines(block) ==
  SelectSeq(block, LAMBDA l : ~DateToken(l).matched)

\* C11: the responseDate of every flushed block is the date of its first
\* line, in block order, that is a date token; the block "5 февраля",
\* "Senior Product Manager", "Acme" with status "Отказ" gives that date,
\* that title and that company.
C11_DateFromFirstToken ==
  LET calls == FlushCalls(input)
      out   == FlushedRecords(input)
  IN  \A k \in 1..Len(calls) :
        /\ Len(TokenLines(calls[k].block)) >= 1
             => out[k].responseDate = DateToken(TokenLines(calls[k].block)[1]).date
        /\ (calls[k].block = <<<<53, 32, 1092, 1077, 1074, 1088, 1072, 1083, 1103>>, <<83, 101, 110, 105, 111, 114, 32, 80, 114, 111, 100, 117, 99, 116, 32, 77, 97, 110, 97, 103, 101, 114>>, <<65, 99, 109, 101>>>> /\ calls[k].status = <<1054, 1090, 1082, 1072, 1079>>)
             => /\ out[k].responseDate = <<53, 32, 1092, 1077, 1074, 1088, 1072, 1083, 1103>>
                /\ out[k].title = <<83, 101, 110, 105, 111, 114, 32, 80, 114, 111, 100, 117, 99, 116, 32, 77, 97, 110, 97, 103, 101, 114>>
                /\ out[k].company = <<65, 99, 109, 101>>

\* C12: no date token of a block is its title or its company; the title is
\* the first and the company the second of the lines that are not date
\* tokens.
C12_DateLinesNotCandidates ==
  LET calls == FlushCalls(input)
      out   == FlushedRecords(input)
  IN  \A k \in 1..Len(calls) :
        LET rest == OtherLines(calls[k].block)
        IN  /\ \A i \in 1..Len(calls[k].block) :
                 DateToken(calls[k].block[i]).matched
                   => /\ out[k].title # calls[k].block[i]
                      /\ out[k].company # calls[k].block[i]
            /\ Len(rest) >= 1 => out[k].title = rest[1]
            /\ Len(rest) >= 2 => out[k].company = rest[2]

\* C13: every flushed block gives a record; without a date token its
\* responseDate is "Unknown", without a line that is not a date token its
\* title is "Unknown", with fewer than two such lines its company is
\* "Unknown".
C13_UnknownSentinels ==
  LET calls == FlushCalls(input)
      out   == FlushedRecords(input)
  IN  /\ Len(out) = Len(calls)
      /\ \A k \in 1..Len(calls) :
           LET rest == OtherLines(calls[k].block)
           IN  /\ Len(TokenLines(calls[k].block)) = 0 => out[k].responseDate = UNKNOWN
               /\ Len(rest) = 0 => out[k].title = UNKNOWN
               /\ Len(rest) < 2 => out[k].company = UNKNOWN

\* The line contains one of the noise substrings.
ContainsNoise(l) ==
  \E s \in IGNORE_SUBSTRINGS : Includes(l, s)

\* The text with every line that contains a noise substring deleted.
WithoutNoise(text) ==
  Join(SelectSeq(SplitOn(text, 10), LAMBDA l : ~ContainsNoise(l)), <<10>>)

\* C14: no line that contains a noise substring is the title or the company
\* of a record, and deleting all such lines from the input leaves the
\* output of parseHHBuffer unchanged (so no such line gives the date).
C14_NoiseLinesIgnored ==
  LET res == parseHHBuffer(input)
  IN  /\ res = parseHHBuffer(WithoutNoise(input))
      /\ \A k \in 1..Len(res) : ~ContainsNoise(res[k].title) /\ ~ContainsNoise(res[k].company)

\* A noise line stands between the title and the company of a block that
\* gave a record.
C14_Witness ==
  LET raw == SplitOn(input, 10)
      res == parseHHBuffer(input)
  IN  /\ Len(raw) >= 4
      /\ raw[1] = <<83, 101, 110, 105, 111, 114, 32, 80, 114, 111, 100, 117, 99, 116, 32, 77, 97, 110, 97, 103, 101, 114>>
      /\ ContainsNoise(raw[2])
      /\ raw[3] = <<65, 99, 109, 101>>
      /\ Len(res) = 1
      /\ res[1].title = <<83, 101, 110, 105, 111, 114, 32, 80, 114, 111, 100, 117, 99, 116, 32, 77, 97, 110, 97, 103, 101, 114>>
      /\ res[1].company = <<65, 99, 109, 101>>

\* The positions of the records that are the first with their hash.
FirstOfHash(out) ==
  {i \in 1..Len(out) : \A j \in 1..(i - 1) : out[j].hash # out[i].hash}

\* C15: the list parseHHBuffer returns holds no two records with the same
\* hash, and it is the flushed records reduced to the first occurrence of
\* each hash, in their order; a block given twice yields one record.
C15_DedupFirstWins ==
  LET out    == FlushedRecords(input)
      res    == parseHHBuffer(input)
      keep   == FirstOfHash(out)
      nth(k) == CHOOSE i \in keep : Cardinality({j \in keep : j < i}) = k - 1
  IN  /\ \A i, j \in 1..Len(res) : res[i].hash = res[j].hash => i = j
      /\ res = [k \in 1..Cardinality(keep) |-> out[nth(k)]]

\* The same block, closed by the same status line, twice in one text.
C15_Witness ==
  LET calls == FlushCalls(input)
  IN  /\ Len(calls) = 2
      /\ calls[1] = calls[2]
      /\ Len(parseHHBuffer(input)) = 1

\* C16: detectRoleFamily is the first matching rule of: marketing and
\* product keyword, product_marketing; analyst and product keyword,
\* product_analytics; project keyword, project; product keyword, product;
\* analyst keyword, product_analytics; otherwise other. A title with a
\* marketing and a product keyword is tagged differently from a title with
\* only one of the two.
C16_RoleRulesInOrder ==
  LET t         == ToLowerCase(input)
      product   == HasAny(t, ProductWords)
      project   == HasAny(t, ProjectWords)
      analyst   == HasAny(t, AnalystWords)
      marketing == HasAny(t, MarketingWords)
      tag       == detectRoleFamily(input)
  IN  /\ tag = IF marketing /\ product THEN "product_marketing"
               ELSE IF analyst /\ product THEN "product_analytics"
               ELSE IF project THEN "project"
               ELSE IF product THEN "product"
               ELSE IF analyst THEN "product_analytics"
               ELSE "other"
      /\ (marketing /\ product) => tag = "product_marketing"
      /\ (marketing # product) => tag # "product_marketing"
      /\ ~(product \/ project \/ analyst \/ marketing) => tag = "other"

\* A title with a project, a marketing and a product keyword: the first
\* rule decides.
C16_Witness ==
  LET t == ToLowerCase(input)
  IN  /\ HasAny(t, ProjectWords)
      /\ HasAny(t, MarketingWords)
      /\ HasAny(t, ProductWords)
      /\ detectRoleFamily(input) = "product_marketing"

\* C17: a title with a junior marker is graded junior, also when it has a
\* senior or lead marker; a title with only a senior or lead marker is
\* graded senior; a title with neither is graded middle.
C17_JuniorBeforeSenior ==
  LET t      == ToLowerCase(input)
      junior == HasAny(t, JuniorWords)
      senior == HasAny(t, SeniorWords)
      grade  == detectGrade(input)
  IN  /\ junior => grade = "junior"
      /\ (senior /\ ~junior) => grade = "senior"
      /\ (~senior /\ ~junior) => grade = "middle"

\* A title with a lead marker before a junior marker.
C17_Witness ==
  /\ input = <<76, 101, 97, 100>> \o <<32>> \o <<74, 117, 110, 105, 111, 114>>
  /\ detectGrade(input) = "junior"

\* C18: parseHHBuffer returns a list for every text; the list is empty for
\* the empty text and for a text without a status line; every record's
\* status is one of the six labels, its roleFamily one of the five families
\* and its grade one of the three grades.
C18_ParserTotal ==
  LET out      == parseHHBuffer(input)
      lines    == SplitOn(input, 10)
      noStatus == \A i \in 1..Len(lines) : Trim(lines[i]) \notin VALID_STATUSES
  IN  /\ DOMAIN out = 1..Len(out)
      /\ input = <<>> => out = <<>>
      /\ noStatus => out = <<>>
      /\ \A k \in 1..Len(out) :
           /\ out[k].status \in VALID_STATUSES
           /\ out[k].roleFamily \in
                {"product", "project", "product_marketing", "product_analytics", "other"}
           /\ out[k].grade \in {"junior", "middle", "senior"}

\* A text whose first line has a lone surrogate and whose status label
\* stands between U+00A0 and "\r": one record, titled with that line.
C18_Witness ==
  LET out == parseHHBuffer(input)
  IN  /\ Len(out) = 1
      /\ out[1].title = <<55357, 32887>>
      /\ out[1].grade = "middle"
      /\ <<160, 1054, 1090, 1082, 1072, 1079, 13>> \o <<10>> = SubSeq(input, Len(input) - 7, Len(input))

\* The k-th binary digit of n, counted from 0.
RefBit(n, k) ==
  (n \div (2 ^ k)) % 2

\* The hexadecimal digits of the offset basis cbf29ce484222325.
RefOffsetHex ==
  <<12, 11, 15, 2, 9, 12, 14, 4, 8, 4, 2, 2, 2, 3, 2, 5>>

\* The offset basis as 64 binary digits, lowest first.
RefOffsetBits ==
  SubSeq([k \in 1..64 |-> RefBit(RefOffsetHex[16 - ((k - 1) \div 4)], (k - 1) % 4)],
         1, 64)

\* h XOR c for a code unit c.
RefXor(h, c) ==
  SubSeq([k \in 1..64 |-> IF k <= 16 THEN (h[k] + RefBit(c, k - 1)) % 2 ELSE h[k]],
         1, 64)

\* h * 2^n modulo 2^64.
RefShift(h, n) ==
  SubSeq([k \in 1..64 |-> IF k > n THEN h[k - n] ELSE 0], 1, 64)

\* a + b modulo 2^64, digit by digit with a carry. (Each digit is computed
\* before the recursive call, so that evaluation does not nest.)
RECURSIVE RefAddLoop(_, _, _, _)
RefAddLoop(a, b, carry, acc) ==
  IF Len(acc) = 64 THEN acc
  ELSE LET k    == Len(acc) + 1
           s    == a[k] + b[k] + carry
           next == Append(acc, s % 2)
       IN  IF Len(next) = k THEN RefAddLoop(a, b, s \div 2, next) ELSE acc

RefAdd(a, b) ==
  RefAddLoop(a, b, 0, <<>>)

\* h * (2^40 + 2^8 + 2^7 + 2^5 + 2^4 + 2 + 1) modulo 2^64: the FNV prime
\* 0x100000001b3 written as a sum of powers of two.
RefMulPrime(h) ==
  LET low == RefAdd(RefAdd(RefAdd(h, RefShift(h, 1)),
                           RefAdd(RefShift(h, 4), RefShift(h, 5))),
                    RefAdd(RefShift(h, 7), RefShift(h, 8)))
  IN  RefAdd(low, RefShift(h, 40))

\* 64-bit FNV-1a over the code units of s.
RECURSIVE RefFnv(_, _)
RefFnv(h, s) ==
  IF s = <<>> THEN h
  ELSE LET next == RefMulPrime(RefXor(h, Head(s)))
       IN  IF Len(next) = 64 THEN RefFnv(next, Tail(s)) ELSE h

\* The 16 lower-case hexadecimal digits of 64 binary digits.
RefHex(h) ==
  LET nibble(i) == h[4 * i + 1] + 2 * h[4 * i + 2] + 4 * h[4 * i + 3] + 8 * h[4 * i + 4]
      digit(n)  == IF n < 10 THEN 48 + n ELSE 87 + n
  IN  [i \in 1..16 |-> digit(nibble(16 - i))]

\* C19: fnv1a64Hex returns the 64-bit FNV-1a hash of the string's UTF-16
\* code units as exactly 16 lower-case hexadecimal digits; the empty string
\* gives the offset basis and "a" gives af63dc4c8601ec8c.
C19_Fnv1a64Hex ==
  LET hex == fnv1a64Hex(input)
  IN  /\ Len(hex) = 16
      /\ \A i \in 1..16 : hex[i] \in (48..57) \cup (97..102)
      /\ hex = RefHex(RefFnv(RefOffsetBits, input))
      /\ input = <<>> => hex = <<99, 98, 102, 50, 57, 99, 101, 52, 56, 52, 50, 50, 50, 51, 50, 53>>
      /\ input = <<97>> => hex = <<97, 102, 54, 51, 100, 99, 52, 99, 56, 54, 48, 49, 101, 99, 56, 99>>

\* A string with a code unit above 255 whose hash begins with the digit 0.
C19_Witness ==
  /\ \E i \in 1..Len(input) : input[i] > 255
  /\ fnv1a64Hex(input)[1] = 48

\* C20: a block of a title line, a company line, a date word and a status
\* line gives exactly one record with that title, company, date and status,
\* classified by its title; for the block "Продакт-менеджер", "Acme Corp",
\* "Сегодня", "Просмотрен" the record has roleFamily product and grade
\* middle.
C20_WellFormedBlock ==
  LET lines  == CleanLines(input)
      out    == parseHHBuffer(input)
      plain(l) == l \notin VALID_STATUSES /\ ~DateToken(l).matched
      shaped == /\ Len(lines) = 4
                /\ plain(lines[1])
                /\ plain(lines[2])
                /\ ToLowerCase(lines[3]) \in {TODAY, YESTERDAY}
                /\ lines[4] \in VALID_STATUSES
  IN  /\ shaped =>
           /\ Len(out) = 1
           /\ out[1].title = lines[1]
           /\ out[1].company = lines[2]
           /\ out[1].responseDate = lines[3]
           /\ out[1].status = lines[4]
           /\ out[1].roleFamily = detectRoleFamily(lines[1])
           /\ out[1].grade = detectGrade(lines[1])
      /\ input = BlockExample =>
           /\ shaped
           /\ out[1].title = <<1055, 1088, 1086, 1076, 1072, 1082, 1090, 45, 1084, 1077, 1085, 1077, 1076, 1078, 1077, 1088>>
           /\ out[1].company = <<65, 99, 109, 101, 32, 67, 111, 114, 112>>
           /\ out[1].responseDate = <<1057, 1077, 1075, 1086, 1076, 1085, 1103>>
           /\ out[1].status = <<1055, 1088, 1086, 1089, 1084, 1086, 1090, 1088, 1077, 1085>>
           /\ out[1].roleFamily = "product"
           /\ out[1].grade = "middle"

\* The block "Продакт-менеджер", "Acme Corp", "Сегодня", "Просмотрен".
C20_Witness ==
  /\ input = BlockExample
  /\ Len(parseHHBuffer(input)) = 1

\* ------------------------------------------------------------------------
\* The interview wizard model: the webhook with its secret check, the
\* wizard in any of its states, commands and buttons
\* ------------------------------------------------------------------------

\* Number of requests with one update_id that the secret check refuses.
MaxRejected ==
  1

\* A forbidden request that writes the idempotency marker before it is
\* refused.
ForbiddenAfterMark(id, configured, got) ==
  /\ configured # "" /\ got # configured
  /\ rejected[id] < MaxRejected
  /\ rejected' = [rejected EXCEPT ![id] = @ + 1]
  /\ processed' = processed \cup {id}
  /\ UNCHANGED <<buffers, responses, user_state, interview_entries, update, task,
                 deliveries, markedNew, started, appended, afterReset, input, side>>

\* POST /telegram with TELEGRAM_WEBHOOK_SECRET configured and another value
\* (or none, got = "") in X-Telegram-Bot-Api-Secret-Token: the answer is 403
\* before the body is read. Deliver and Redeliver are the requests that pass
\* this check.
Forbidden(id, configured, got) ==
  /\ configured # "" /\ got # configured
  /\ rejected[id] < MaxRejected
  /\ rejected' = [rejected EXCEPT ![id] = @ + 1]
  /\ UNCHANGED <<tables, update, task, deliveries, markedNew, started, appended,
                 afterReset, input, side>>

\* What user 1 sends in this model. Texts: "5", "1 2 0 0", "C", "99999",
\* "1 2 99999 0", and "1 2 3 N 4" with N of 310 digits 9. Commands: /cancel,
\* /interviews, /new, /done, /stats and the unknown /foo. Buttons: menu,
\* add_interviews, cancel, new, done, stats:week and one without data.
WizardUpdates ==
  LET big      == <<57, 57, 57, 57, 57>>
      quickBad == <<49, 32, 50, 32>> \o big \o <<32, 48>>
      overlong ==
        <<49, 32, 50, 32, 51, 32>> \o
        << 57, 57, 57, 57, 57, 57, 57, 57, 57, 57, 57, 57, 57, 57, 57, 57, 57, 57, 57, 57,
           57, 57, 57, 57, 57, 57, 57, 57, 57, 57, 57, 57, 57, 57, 57, 57, 57, 57, 57, 57,
           57, 57, 57, 57, 57, 57, 57, 57, 57, 57, 57, 57, 57, 57, 57, 57, 57, 57, 57, 57,
           57, 57, 57, 57, 57, 57, 57, 57, 57, 57, 57, 57, 57, 57, 57, 57, 57, 57, 57, 57,
           57, 57, 57, 57, 57, 57, 57, 57, 57, 57, 57, 57, 57, 57, 57, 57, 57, 57, 57, 57,
           57, 57, 57, 57, 57, 57, 57, 57, 57, 57, 57, 57, 57, 57, 57, 57, 57, 57, 57, 57,
           57, 57, 57, 57, 57, 57, 57, 57, 57, 57, 57, 57, 57, 57, 57, 57, 57, 57, 57, 57,
           57, 57, 57, 57, 57, 57, 57, 57, 57, 57, 57, 57, 57, 57, 57, 57, 57, 57, 57, 57,
           57, 57, 57, 57, 57, 57, 57, 57, 57, 57, 57, 57, 57, 57, 57, 57, 57, 57, 57, 57,
           57, 57, 57, 57, 57, 57, 57, 57, 57, 57, 57, 57, 57, 57, 57, 57, 57, 57, 57, 57,
           57, 57, 57, 57, 57, 57, 57, 57, 57, 57, 57, 57, 57, 57, 57, 57, 57, 57, 57, 57,
           57, 57, 57, 57, 57, 57, 57, 57, 57, 57, 57, 57, 57, 57, 57, 57, 57, 57, 57, 57,
           57, 57, 57, 57, 57, 57, 57, 57, 57, 57, 57, 57, 57, 57, 57, 57, 57, 57, 57, 57,
           57, 57, 57, 57, 57, 57, 57, 57, 57, 57, 57, 57, 57, 57, 57, 57, 57, 57, 57, 57,
           57, 57, 57, 57, 57, 57, 57, 57, 57, 57, 57, 57, 57, 57, 57, 57, 57, 57, 57, 57,
           57, 57, 57, 57, 57, 57, 57, 57, 57, 57 >> \o
        <<32, 52>>
      CmdFoo   == <<47, 102, 111, 111>>
  IN  [user : {1}, kind : {"message"},
       text : {TextCount, TextQuick, TextLine, big, quickBad, overlong,
               CmdCancel, CmdInterviews, CmdNew, CmdDone, CmdStats, CmdFoo},
       data : {""}]
        \cup [user : {1}, kind : {"callback"}, text : {<<>>},
              data : {"menu", "add_interviews", "cancel", "new", "done", "stats:week", ""}]

\* User 1 has pasted TextBlock and is anywhere in the wizard: not in it, or
\* at one of its four questions with the earlier answers (1, 2, 3) stored.
InitWizard ==
  /\ processed = {}
  /\ buffers = [u \in Users |-> IF u = 1 THEN BufferRow(TextBlock) ELSE NoRow]
  /\ responses = <<>>
  /\ user_state \in
       { [u \in Users |-> IF u = 1 THEN st ELSE NoRow] :
           st \in { NoRow,
                    StateRow("interviews_screening", EmptyData),
                    StateRow("interviews_hr", [EmptyData EXCEPT !.screening = 1]),
                    StateRow("interviews_technical",
                             [EmptyData EXCEPT !.screening = 1, !.hr = 2]),
                    StateRow("interviews_offer",
                             [screening |-> 1, hr |-> 2, technical |-> 3]) } }
  /\ interview_entries = <<>>
  /\ update = [id \in UpdateIds |-> NoUpdate]
  /\ task = [id \in UpdateIds |-> IdleTask]
  /\ deliveries = [id \in UpdateIds |-> 0]
  /\ markedNew = [id \in UpdateIds |-> 0]
  /\ started = [id \in UpdateIds |-> 0]
  /\ appended = [id \in UpdateIds |-> 0]
  /\ afterReset = [id \in UpdateIds |-> FALSE]
  /\ rejected = [id \in UpdateIds |-> 0]
  /\ input = <<>>
  /\ SideIdle

SpecWizard ==
  InitWizard /\
  [][\/ \E id \in UpdateIds, upd \in WizardUpdates : Deliver(id, upd)
     \/ \E id \in UpdateIds, configured \in {"", "s"}, got \in {"", "s", "x"} :
          Forbidden(id, configured, got)
     \/ \E id \in UpdateIds : EnsureUser(id)
     \/ \E id \in UpdateIds : CbClearUserState(id)
     \/ \E id \in UpdateIds : CbClearUserStateError(id)
     \/ \E id \in UpdateIds : StartWizard(id)
     \/ \E id \in UpdateIds : GetUserState(id)
     \/ \E id \in UpdateIds : SetUserState(id)
     \/ \E id \in UpdateIds : AddInterviewEntry(id)
     \/ \E id \in UpdateIds : ClearUserState(id)
     \/ \E id \in UpdateIds : AppendSelect(id)
     \/ \E id \in UpdateIds : AppendUpdate(id)
     \/ \E id \in UpdateIds : AppendInsert(id)
     \/ \E id \in UpdateIds : ClearBuffer(id)
     \/ \E id \in UpdateIds : GetBuffer(id)
     \/ \E id \in UpdateIds : AddResponses(id)
     \/ \E id \in UpdateIds : Stats(id)
     \/ \E id \in UpdateIds : StorageError(id)]_vars

\* The separator model: parseHHBuffer applied to responses whose title or
\* company holds the character "|". The text grows by "A|B", "C", "A",
\* "B|C", a status line, or a whole response "A|B\nC\nОтказ" or
\* "A\nB|C\nОтказ".
SpecSeparator ==
  InitBlock /\
  [][\E l \in { <<65, 124, 66>>, <<67>>, <<65>>, <<66, 124, 67>>,
                <<1054, 1090, 1082, 1072, 1079>>,
                <<65, 124, 66, 10, 67, 10, 1054, 1090, 1082, 1072, 1079>>,
                <<65, 10, 66, 124, 67, 10, 1054, 1090, 1082, 1072, 1079>> } :
       AddBlockLine(l)]_vars

\* The persistence time of a row, in hours: the time whose datetime() text
\* is imported_at.
HoursOf(r) ==
  CHOOSE t \in ClockStart..(ClockStart + MaxHours) : sqliteDatetime(t) = r.imported_at

\* The rows of user v persisted at or after now minus days days; days = 0
\* stands for the window "all".
RowsInWindow(v, now, days) ==
  SelectSeq(responses,
            LAMBDA r : r.user_id = v /\ (days = 0 \/ HoursOf(r) >= now - days * 24))

\* The window of a finished aggregator call, in days.
AggDays ==
  IF agg.fn = "getUserStats" THEN agg.days
  ELSE IF agg.period = "week" THEN 7
  ELSE IF agg.period = "month" THEN 30
  ELSE 0

\* C21: a stats query with an N-day window counts exactly the user's rows
\* whose imported_at is at or after now minus N days, whatever their
\* response_date, and the window "all" counts every row of the user (for a
\* call during which no row was inserted and no time passed).
C21_WindowByImportedAt ==
  (agg.pc = "done" /\ agg.quiet)
    => agg.total = Len(RowsInWindow(agg.userId, agg.startedAt, AggDays))

\* The sum of the counts of a set of groups.
RECURSIVE SumCounts(_)
SumCounts(groups) ==
  IF groups = {} THEN 0
  ELSE LET g == CHOOSE x \in groups : TRUE
       IN  g.count + SumCounts(groups \ {g})

\* C22: in every result of getUserStatsV2, total equals the sum of the
\* per-status counts, of the per-grade counts and of the per-role counts,
\* and no top-company count exceeds total, also when addResponses commits
\* between the queries.
C22_GroupingsAgree ==
  (agg.pc = "done" /\ agg.fn = "getUserStatsV2")
    => /\ agg.total = SumCounts(agg.status)
       /\ agg.total = SumCounts(agg.grade)
       /\ agg.total = SumCounts(agg.roleFamily)
       /\ \A i \in 1..Len(agg.topCompanies) : agg.topCompanies[i].count <= agg.total

\* The index of the first row of responses with company c.
FirstRowOf(c) ==
  CHOOSE i \in 1..Len(responses) :
    /\ responses[i].company = c
    /\ \A j \in 1..(i - 1) : responses[j].company # c

\* C23: topCompanies has at most K entries (8 in getUserStatsV2, 5 in
\* getUserStats) in non-increasing count order, no omitted company has a
\* larger count than a listed one, and companies with equal counts stand in
\* one fixed order: that of their names or that of their first rows.
C23_TopCompaniesDeterministic ==
  (agg.pc = "done" /\ agg.quiet)
    => LET top    == agg.topCompanies
           k      == IF agg.fn = "getUserStats" THEN TopLimitV1 ELSE TopLimitV2
           groups == GroupBy(RowsInWindow(agg.userId, agg.startedAt, AggDays), "company")
           listed == {top[i] : i \in 1..Len(top)}
           ties   == {<<i, j>> \in (1..Len(top)) \X (1..Len(top)) :
                        i < j /\ top[i].count = top[j].count}
       IN  /\ Len(top) <= k
           /\ \A i, j \in 1..Len(top) : i < j => top[i].count >= top[j].count
           /\ \A g \in groups \ listed : \A l \in listed : g.count <= l.count
           /\ \/ \A t \in ties : TextGE(top[t[2]].name, top[t[1]].name)
              \/ \A t \in ties : FirstRowOf(top[t[1]].name) < FirstRowOf(top[t[2]].name)

\* The task id runs its addResponses statement in this step.
AddResponsesStep(id) ==
  /\ task[id].pc = "addResponses"
  /\ task'[id].pc \notin {"addResponses", "failed"}

\* C24: addResponses returns inserted = the number of rows it added and
\* duplicates = parsed.length - inserted; a parsed record is counted as
\* inserted exactly if no row with its (user_id, hash) existed when its
\* insert ran.
C24_InsertedCountsNewRows ==
  [][\A id \in UpdateIds :
       AddResponsesStep(id) =>
         LET parsed == task[id].parsed
             fresh  == {k \in 1..Len(parsed) :
                          ~\E i \in 1..Len(responses) :
                             /\ responses[i].user_id = User(id)
                             /\ responses[i].hash = parsed[k].hash}
         IN  /\ task'[id].inserted = Len(responses') - Len(responses)
             /\ task'[id].inserted = Cardinality(fresh)
             /\ task'[id].duplicates = Len(parsed) - task'[id].inserted
             /\ task'[id].inserted + task'[id].duplicates = Len(parsed)]_vars

\* A finalize whose only record was already stored: nothing inserted, one
\* duplicate.
C24_Witness ==
  \E id \in UpdateIds :
    /\ IsFinalize(update[id])
    /\ task[id].pc = "clearBuffer"
    /\ task[id].inserted = 0
    /\ task[id].duplicates = 1

\* Every record that the task id parsed has a row of its user already.
AlreadyImported(id) ==
  /\ task[id].parsed # <<>>
  /\ \A k \in 1..Len(task[id].parsed) :
       \E i \in 1..Len(responses) :
         /\ responses[i].user_id = User(id)
         /\ responses[i].hash = task[id].parsed[k].hash

\* C25: the addResponses of a finalize whose text the user imported before
\* reports inserted = 0 and duplicates = the number of parsed records, and
\* leaves the table as the earlier finalize left it.
C25_SecondImportIdempotent ==
  [][\A id \in UpdateIds :
       (AddResponsesStep(id) /\ AlreadyImported(id)) =>
         /\ task'[id].inserted = 0
         /\ task'[id].duplicates = Len(task[id].parsed)
         /\ responses' = responses]_vars

\* The second finalize of TextBlock has run addResponses.
C25_Witness ==
  /\ RowsOf(responses, 1) = FirstImport
  /\ \E id \in UpdateIds :
       /\ IsFinalize(update[id])
       /\ User(id) = 1
       /\ task[id].pc = "clearBuffer"
       /\ task[id].bufferText = TextBlock
       /\ task[id].inserted = 0
       /\ task[id].duplicates = Len(task[id].parsed)

\* a is a prefix of b.
IsPrefix(a, b) ==
  Len(a) <= Len(b) /\ SubSeq(b, 1, Len(a)) = a

\* The task id runs its clearBuffer statement in this step.
ClearStep(id) ==
  /\ task[id].pc = "clearBuffer"
  /\ task'[id].pc \notin {"clearBuffer", "failed"}

\* C26: every step other than a clearBuffer of the user leaves a buffer
\* text of which the previous buffer text is a prefix.
C26_BufferGrowsBetweenClears ==
  [][\A u \in Users :
       \/ \E id \in UpdateIds : User(id) = u /\ ClearStep(id)
       \/ IsPrefix(getBuffer(buffers, u), getBuffer(buffers', u))]_vars

\* A text was appended to the buffer that Init filled.
C26_Witness ==
  \E id \in UpdateIds :
    /\ appended[id] = 1
    /\ buffers[User(id)].exists
    /\ buffers[User(id)].buffer_text = TextBlock \o <<10>> \o Text(id)

\* C27: a row of responses stays in the table with the same field values
\* in every later state; a later insert with the same (user_id, hash)
\* neither overwrites nor removes it.
C27_RecordsImmutable ==
  [][\A i \in 1..Len(responses) :
       /\ Len(responses') >= i
       /\ responses'[i] = responses[i]]_vars

\* Two finalize calls of one user have both run addResponses, the second
\* with a conflict, and the table holds the first row only.
C27_Witness ==
  \E a, b \in UpdateIds :
    /\ a # b
    /\ User(a) = User(b)
    /\ task[a].cleared
    /\ task[b].pc = "clearBuffer"
    /\ task[a].inserted = 1
    /\ task[b].duplicates = 1
    /\ Len(responses) = 1

\* C28: for each user, any two "Принял" messages are at least 5 seconds
\* apart (by the Date.now() at which each was decided), also when several
\* plain-text messages of the user are processed concurrently.
C28_AckOncePerInterval ==
  \A i, j \in DOMAIN acks :
    (i < j /\ acks[i].userId = acks[j].userId)
      => \/ acks[j].now - acks[i].now >= AckIntervalMs
         \/ acks[i].now - acks[j].now >= AckIntervalMs

\* C29: a plain-text message that arrives after a reset of its user has
\* returned, and before any finalize or other reset of that user, is
\* appended to the buffer when its processing returns, whatever the user
\* did before the reset.
C29_TextAfterResetAppended ==
  \A id \in UpdateIds :
    (afterReset[id] /\ IsPlainText(update[id]) /\ task[id].pc = "done")
      => appended[id] = 1

\* C30: a text leaves the buffer only by a reset or by the clearBuffer of a
\* finalize that parsed it: when a finalize deletes the buffer, the buffer
\* is empty (a reset emptied it) or holds the text that the finalize's
\* getBuffer returned.
C30_AcceptedFragmentNotLost ==
  [][\A id \in UpdateIds :
       (ClearStep(id) /\ IsFinalize(update[id]))
         => getBuffer(buffers, User(id)) \in {<<>>, task[id].bufferText}]_vars

\* The finalizes i and j of one user have both run addResponses on the same
\* buffer text, and neither has deleted the buffer yet.
BothImported(i, j) ==
  /\ i # j
  /\ IsFinalize(update[i]) /\ IsFinalize(update[j])
  /\ User(i) = User(j)
  /\ task[i].pc = "clearBuffer" /\ task[j].pc = "clearBuffer"
  /\ task[i].bufferText = task[j].bufferText

\* C31: when two concurrent finalizes of one user read the same buffer
\* text, no (user, fingerprint) is stored twice, the two inserted counts add
\* up to the number of distinct fingerprints of that text that were not
\* stored before, and each call has inserted + duplicates = the number of
\* records it parsed.
C31_ConcurrentFinalizes ==
  \A i, j \in UpdateIds :
    BothImported(i, j) =>
      LET both   == task[i].inserted + task[j].inserted
          before == {responses[k].hash : k \in {n \in 1..(Len(responses) - both) :
                                                  responses[n].user_id = User(i)}}
          prints == {task[i].parsed[k].hash : k \in 1..Len(task[i].parsed)}
      IN  /\ \A m, n \in 1..Len(responses) :
               (m # n /\ responses[m].user_id = responses[n].user_id)
                 => responses[m].hash # responses[n].hash
          /\ both = Cardinality(prints \ before)
          /\ task[i].inserted + task[i].duplicates = Len(task[i].parsed)
          /\ task[j].inserted + task[j].duplicates = Len(task[j].parsed)

\* Two finalizes of TextBlock between getBuffer and clearBuffer: one of
\* them inserted the record, the other counted it as a duplicate.
C31_Witness ==
  \E i, j \in UpdateIds :
    /\ BothImported(i, j)
    /\ task[i].bufferText = TextBlock
    /\ task[i].inserted = 1 /\ task[i].duplicates = 0
    /\ task[j].inserted = 0 /\ task[j].duplicates = 1
    /\ Len(responses) = 1

\* The task id runs getBuffer in this step and then returns at one of the
\* two early returns of handleDoneImport.
EarlyReturnStep(id) ==
  /\ task[id].pc = "getBuffer"
  /\ task'[id].pc = "done"

\* C32: a finalize that finds the buffer empty or absent, or a buffer from
\* which parseHHBuffer returns no record, returns without inserting a
\* record and without changing the buffer. Conversely a finalize that reads
\* a text with a record goes on to addResponses.
C32_EmptyFinalizeChangesNothing ==
  [][\A id \in UpdateIds :
       /\ (task[id].pc = "getBuffer" /\ task'[id].pc \notin {"getBuffer", "failed"})
            => (task'[id].pc = "done"
                  <=> \/ getBuffer(buffers, User(id)) = <<>>
                      \/ parseHHBuffer(getBuffer(buffers, User(id))) = <<>>)
       /\ EarlyReturnStep(id)
            => /\ responses' = responses
               /\ buffers' = buffers
               /\ task'[id].inserted = 0
               /\ ~task'[id].cleared]_vars

\* A finalize has returned early on the buffer "C", which holds a line but
\* no record; the buffer still holds it.
C32_Witness ==
  \E id \in UpdateIds :
    /\ IsFinalize(update[id])
    /\ task[id].pc = "done"
    /\ ~task[id].cleared
    /\ getBuffer(buffers, User(id)) = TextLine
    /\ responses = <<>>

\* C33: a request refused by the secret check (answer 403) writes no
\* processed_updates marker, starts no processUpdate and changes no buffer,
\* record or wizard state; the same update_id delivered afterwards with the
\* right secret is marked as new and processed.
C33_ForbiddenChangesNothing ==
  [][\A id \in UpdateIds :
       /\ rejected'[id] # rejected[id]
            => /\ processed' = processed
               /\ buffers' = buffers
               /\ responses' = responses
               /\ user_state' = user_state
               /\ interview_entries' = interview_entries
               /\ task' = task
               /\ started' = started
               /\ markedNew' = markedNew
       /\ (rejected[id] > 0 /\ deliveries[id] = 0 /\ deliveries'[id] = 1)
            => /\ id \in processed'
               /\ markedNew'[id] = 1
               /\ started'[id] = 1
               /\ task'[id].pc = "ensureUser"]_vars

\* An update_id was refused once, then delivered with the right secret and
\* processed to the end.
C33_Witness ==
  \E id \in UpdateIds :
    /\ rejected[id] = 1
    /\ deliveries[id] = 1
    /\ started[id] = 1
    /\ task[id].pc = "done"

\* The numbers of a message as the user wrote them: the value of every digit
\* run, in order (each above 9999 shown as 10000).
Numbers(text) ==
  LET runs == DigitRuns(text, 1)
  IN  [i \in 1..Len(runs) |-> DigitsValue(runs[i], 0)]

\* The task id, a plain text of a user who is in the wizard, reads the
\* wizard state in this step.
WizardReadStep(id) ==
  /\ task[id].pc = "getUserState"
  /\ task'[id].pc \notin {"getUserState", "failed"}
  /\ user_state[User(id)].exists

\* The wizard state after the answer n to the question of st.
Answered(st, n) ==
  CASE st.state = "interviews_screening" ->
         StateRow("interviews_hr", [st.data EXCEPT !.screening = n])
    [] st.state = "interviews_hr" ->
         StateRow("interviews_technical", [st.data EXCEPT !.hr = n])
    [] st.state = "interviews_technical" ->
         StateRow("interviews_offer", [st.data EXCEPT !.technical = n])
    [] OTHER -> NoRow

\* The statements of the wizard do what the decision taken at the read
\* asked for: start stores interviews_screening with empty data,
\* setUserState stores the next question, addInterviewEntry adds exactly the
\* one entry and is followed by clearUserState, which removes the state.
WizardWrites(id) ==
  /\ (task[id].pc = "startWizard" /\ task'[id].pc = "done")
       => user_state'[User(id)] = StateRow("interviews_screening", EmptyData)
  /\ (task[id].pc = "setUserState" /\ task'[id].pc = "done")
       => /\ user_state'[User(id)] = task[id].nextState
          /\ interview_entries' = interview_entries
  /\ (task[id].pc = "addInterviewEntry" /\ task'[id].pc # "failed"
        /\ task'[id].pc # "addInterviewEntry")
       => /\ interview_entries' =
               Append(interview_entries,
                      [user_id |-> User(id)] @@ task[id].entry)
          /\ task'[id].pc = "clearUserState"
  /\ (task[id].pc = "clearUserState" /\ task'[id].pc = "done")
       => ~user_state'[User(id)].exists

\* What the read decides for a message whose first number n counts as an
\* answer: the next question with n stored, or in interviews_offer the
\* entry of the three stored numbers and n.
WizardAdvances(id, n) ==
  LET st == user_state[User(id)]
  IN  IF st.state = "interviews_offer"
      THEN /\ task'[id].pc = "addInterviewEntry"
           /\ task'[id].entry = [screening |-> st.data.screening, hr |-> st.data.hr,
                                 technical |-> st.data.technical, offer |-> n]
      ELSE /\ task'[id].pc = "setUserState"
           /\ task'[id].nextState = Answered(st, n)

C35_QuickInput ==
  [][\A id \in UpdateIds :
       WizardReadStep(id) =>
         LET nums == Numbers(Text(id))
             st   == user_state[User(id)]
         IN  IF st.state = "interviews_screening" /\ Len(nums) >= 4
             THEN IF \A k \in 1..4 : isValidCount(nums[k])
                  THEN /\ task'[id].pc = "addInterviewEntry"
                       /\ task'[id].entry = [screening |-> nums[1], hr |-> nums[2],
                                             technical |-> nums[3], offer |-> nums[4]]
                  ELSE task'[id].pc = "done"
             ELSE IF nums # <<>> /\ isValidCount(nums[1])
                  THEN WizardAdvances(id, nums[1])
                  ELSE task'[id].pc = "done"]_vars

C37_ButtonEndsWizard ==
  [][\A id \in UpdateIds :
       (update[id].kind = "callback" /\ update[id].data # "") =>
         /\ (task[id].pc # "done" /\ task'[id].pc = "done")
              => user_state'[User(id)] =
                   IF update[id].data = "add_interviews"
                   THEN StateRow("interviews_screening", EmptyData)
                   ELSE NoRow
         /\ task'[id] # task[id] => interview_entries' = interview_entries]_vars

\* C38: every row of interview_entries has screening, hr, technical and
\* offer each an integer in 0..9999.
C38_EntryCountsInRange ==
  \A k \in 1..Len(interview_entries) :
    /\ interview_entries[k].screening \in 0..9999
    /\ interview_entries[k].hr \in 0..9999
    /\ interview_entries[k].technical \in 0..9999
    /\ interview_entries[k].offer \in 0..9999

\* Two entries were written by two answers "5" to the last question, each
\* with the three numbers stored before.
C38_Witness ==
  /\ Len(interview_entries) = 2
  /\ \A k \in 1..2 :
       interview_entries[k] =
         [user_id |-> 1, screening |-> 1, hr |-> 2, technical |-> 3, offer |-> 5]

\* C39: no statement of a command (a message whose trimmed text starts with
\* "/") appends to the buffer; /new and /reset can only delete the buffer
\* row, /done can only delete it and add records, and every other command,
\* known or unknown, leaves the buffer and the records as they are.
C39_CommandsAndBuffer ==
  [][\A id \in UpdateIds :
       (/\ update[id].kind = "message"
        /\ StartsWith(Text(id), <<47>>)
        /\ task'[id] # task[id]) =>
         LET cmd == SplitOn(Text(id), 32)[1]
         IN  /\ appended'[id] = 0
             /\ task'[id].pc \notin {"appendSelect", "appendWrite"}
             /\ buffers' \in {buffers, clearBuffer(buffers, User(id))}
             /\ cmd \in {CmdNew, CmdReset} => responses' = responses
             /\ cmd \notin {CmdNew, CmdReset, CmdDone}
                  => buffers' = buffers /\ responses' = responses]_vars

\* The unknown command /foo and /stats were handled to the end: the buffer
\* still holds the pasted block and nothing is stored.
C39_Witness ==
  /\ \E id \in UpdateIds :
       update[id].text = <<47, 102, 111, 111>> /\ task[id].pc = "done"
  /\ \E id \in UpdateIds : update[id].text = CmdStats /\ task[id].pc = "done"
  /\ buffers[1] = BufferRow(TextBlock)
  /\ responses = <<>>

\* The string that flush hashes for a record: `${title}|${company}|${date}|${status}`
HashInput(rec) ==
  Join(<<rec.title, rec.company, rec.responseDate, rec.status>>, <<124>>)

\* C40: each flushed record is hashed from the string
\* title|company|date|status, and two flushed records that differ in title,
\* company, date or status are hashed from different strings.
C40_HashInputDeterminesFields ==
  LET out == FlushedRecords(input)
  IN  \A i, j \in 1..Len(out) :
        /\ out[i].hash = fnv1a64Hex(HashInput(out[i]))
        /\ (\/ out[i].title # out[j].title
            \/ out[i].company # out[j].company
            \/ out[i].responseDate # out[j].responseDate
            \/ out[i].status # out[j].status)
             => HashInput(out[i]) # HashInput(out[j])

====
